---------------------------- MODULE Spec2Model ----------------------------
(***************************************************************************)
(* Model of src/main.py: the Portuguese numeral / currency speller, the    *)
(* two currency-string parsers and the long-form date formatter.           *)
(*                                                                         *)
(* Python str values are TLA+ strings handled character by character       *)
(* (Len, SubSeq, \o).  A Python float is the record                        *)
(*     [neg |-> BOOLEAN, inteiro |-> Nat, micros |-> 0 .. 10^6 - 1]        *)
(* standing for (-1)^neg * (inteiro + micros / 10^6).                      *)
(***************************************************************************)
EXTENDS Integers, Sequences, FiniteSets, TLC

VARIABLES
    pc,         \* position of the call under study: "inicio" | "fim"
    n,          \* argument of _extenso_0_999
    ext,        \* value returned by _extenso_0_999
    valor,      \* argument of numero_para_moeda_ptbr
    frase,      \* value returned by numero_para_moeda_ptbr
    s,          \* argument of the currency-string parsers
    res_pub,    \* outcome of parse_valor_brl(s)
    res_priv,   \* outcome of _parse_valor_brl(s)
    data_str,   \* arguments of formatar_data_extenso
    cidade,
    uf,
    data_ext,   \* value returned by formatar_data_extenso
    ws,         \* worksheet: [merged |-> ranges, cells |-> coordinate -> value]
    coord,      \* argument of the last get_top_left_of_merged_cell call
    alvo,       \* coordinate of the cell that call returned
    coord_ant,  \* argument and result of the call before it
    alvo_ant,
    api_key,        \* os.getenv("OPENAI_API_KEY")
    colab,          \* what the OpenAI client does: an exception or resp.output_text
    res_ext,        \* outcome of extrair_dados_cliente_de_pdf
    session_state,  \* st.session_state: key -> text
    merged_d,       \* the dict the last import passed to _merge_session_state
    res_imp,        \* outcome of the last importar_pdf_e_preencher
    msgs,           \* what the import handler showed: "success" | "error" | ""
    chamadas,       \* how many times the OpenAI client was created and called
    dados,          \* the dict dados of the form (line 342, 379)
    opcao,          \* opcao_alfabetizado: "Sim" | "Não"
    existentes,     \* the model names whose template file exists
    folha,          \* the worksheet load_workbook gives for a template
    relogio,        \* position of the clock in Instantes
    recibo,         \* the receipt keys of st.session_state
    saida,          \* what the last generation produced
    saida_ant,      \* what the generation before it produced
    gesto,          \* what the user did before the last run of the receipt block
    digitado,       \* the text the user left in the preview, when gesto is "editar"
    semeaduras,     \* how many times line 993 assigned recibo_preview
    corridas        \* how many runs of the script there were

vMescla == <<ws, coord, alvo, coord_ant, alvo_ant>>
vImportar == <<api_key, colab, res_ext, session_state, merged_d, res_imp, msgs, chamadas>>

\* the variables of the handlers, idle in the specifications of the pure
\* functions
vGerar == <<dados, opcao, existentes, folha, relogio, recibo, saida, saida_ant>>
vRecibo == <<gesto, digitado, semeaduras, corridas>>
vNovas == <<vMescla, vImportar, vGerar, vRecibo>>

vars == <<pc, n, ext, valor, frase, s, res_pub, res_priv,
          data_str, cidade, uf, data_ext, vNovas>>

\* the variables of the pure functions, idle in the specifications of the
\* handlers
vPuras == <<n, ext, valor, frase, s, res_pub, res_priv, data_str, cidade, uf, data_ext>>

OciosoMescla ==
    /\ ws = [merged |-> {}, cells |-> <<>>]
    /\ coord = "" /\ alvo = "" /\ coord_ant = "" /\ alvo_ant = ""

OciosoImportar ==
    /\ api_key = "" /\ colab = [tipo |-> "pendente"] /\ res_ext = [tipo |-> "pendente"]
    /\ session_state = <<>> /\ merged_d = <<>>
    /\ res_imp = [tipo |-> "pendente"] /\ msgs = "" /\ chamadas = 0

OciosoGerar ==
    /\ dados = <<>> /\ opcao = "Sim" /\ existentes = {}
    /\ folha = [merged |-> {}, cells |-> <<>>]
    /\ relogio = 1 /\ recibo = <<>>
    /\ saida = [tipo |-> "nada"] /\ saida_ant = [tipo |-> "nada"]

OciosoRecibo == gesto = "" /\ digitado = "" /\ semeaduras = 0 /\ corridas = 0

OciosoNovas == OciosoMescla /\ OciosoImportar /\ OciosoGerar /\ OciosoRecibo

(***************************************************************************)
(* Python str primitives                                                   *)
(***************************************************************************)

\* s[i] (1-based here)
CharAt(str, i) == SubSeq(str, i, i)

\* s[i:] (1-based start)
From(str, i) == SubSeq(str, i, Len(str))

\* str.startswith(prefix)
StartsWith(str, prefix) ==
    /\ Len(prefix) <= Len(str)
    /\ SubSeq(str, 1, Len(prefix)) = prefix

\* sub in str
RECURSIVE Contains(_, _)
Contains(str, sub) ==
    IF Len(str) < Len(sub) THEN FALSE
    ELSE IF StartsWith(str, sub) THEN TRUE
    ELSE Contains(From(str, 2), sub)

\* str.replace(old, new): non-overlapping occurrences, left to right
RECURSIVE Replace(_, _, _)
Replace(str, old, new) ==
    IF Len(str) < Len(old) \/ str = "" THEN str
    ELSE IF StartsWith(str, old)
         THEN new \o Replace(From(str, Len(old) + 1), old, new)
         ELSE CharAt(str, 1) \o Replace(From(str, 2), old, new)

Minusculas == "abcdefghijklmnopqrstuvwxyz"
Maiusculas == "ABCDEFGHIJKLMNOPQRSTUVWXYZ"

\* ch.upper() for a one-character string (the phrases start with an
\* unaccented letter; any other character is its own upper case here)
Upper(ch) ==
    IF \E i \in 1..Len(Minusculas) : CharAt(Minusculas, i) = ch
    THEN CharAt(Maiusculas, CHOOSE i \in 1..Len(Minusculas) : CharAt(Minusculas, i) = ch)
    ELSE ch

\* " ".join(partes) and the like
RECURSIVE Join(_, _)
Join(partes, sep) ==
    IF partes = <<>> THEN ""
    ELSE IF Len(partes) = 1 THEN partes[1]
    ELSE partes[1] \o sep \o Join(Tail(partes), sep)

\* [x] if cond else []  (a conditional partes.append(x))
AppendIf(partes, cond, x) == IF cond THEN Append(partes, x) ELSE partes

(***************************************************************************)
(* _extenso_0_999                                                          *)
(***************************************************************************)
unidades == <<"", "um", "dois", "três", "quatro", "cinco", "seis", "sete", "oito", "nove">>
dez_a_dezenove == <<"dez", "onze", "doze", "treze", "quatorze", "quinze",
                    "dezesseis", "dezessete", "dezoito", "dezenove">>
dezenas == <<"", "", "vinte", "trinta", "quarenta", "cinquenta", "sessenta",
             "setenta", "oitenta", "noventa">>
centenas_tab == <<"", "cento", "duzentos", "trezentos", "quatrocentos", "quinhentos",
                  "seiscentos", "setecentos", "oitocentos", "novecentos">>

\* Faulty variant: the n == 100 special case is missing.
Extenso_sem_cem(k) ==
    LET c == k \div 100
        d == (k % 100) \div 10
        u == k % 10
        p1 == AppendIf(<<>>, c # 0, centenas_tab[c + 1])
        p2 == IF d = 1 THEN Append(p1, dez_a_dezenove[u + 1])
              ELSE AppendIf(AppendIf(p1, d # 0, dezenas[d + 1]), u # 0, unidades[u + 1])
    IN  IF k = 0 THEN "" ELSE Join(p2, " e ")

\* Python lists are 0-based: tab[i] there is tab[i + 1] here.
_extenso_0_999(k) ==
    LET c == k \div 100
        d == (k % 100) \div 10
        u == k % 10
        p1 == AppendIf(<<>>, c # 0, centenas_tab[c + 1])
        p2 == IF d = 1 THEN Append(p1, dez_a_dezenove[u + 1])
              ELSE AppendIf(AppendIf(p1, d # 0, dezenas[d + 1]), u # 0, unidades[u + 1])
    IN  IF k = 0 THEN ""
        ELSE IF k = 100 THEN "cem"
        ELSE Join(p2, " e ")

_bloco_extenso(k, singular, plural) ==
    IF k = 0 THEN ""
    ELSE IF k = 1 THEN "um " \o singular
    ELSE _extenso_0_999(k) \o " " \o plural


(***************************************************************************)
(* Python float                                                            *)
(*                                                                         *)
(* A float is modelled by the decimal it was read from, with at most six   *)
(* fractional digits.  The inputs of numero_para_moeda_ptbr are kept on    *)
(* the amounts where the binary computation (valor - inteiro) * 100 rounds *)
(* as the decimal one does: amounts in thousandths whose distance from a   *)
(* half-cent tie is at least 0.1 cent (the representation error, below     *)
(* 1e-5 cent for whole parts under 2^31, cannot move them across the tie)  *)
(* and the exact binary fractions k/8, whose ties are exact ties.          *)
(***************************************************************************)
Micro == 1000 * 1000

Float(neg, inteiro, micros) == [neg |-> neg, inteiro |-> inteiro, micros |-> micros]

\* valor < 0   (False for -0.0)
Menor0(v) == v.neg /\ (v.inteiro > 0 \/ v.micros > 0)

\* -valor
Negar(v) == [v EXCEPT !.neg = ~v.neg]

\* int(valor), valor >= 0: truncation
IntDe(v) == v.inteiro

\* round(num / den) of Python 3: to nearest, ties to even
Round(num, den) ==
    LET q == num \div den
        r == num % den
    IN  IF 2 * r < den THEN q
        ELSE IF 2 * r > den THEN q + 1
        ELSE IF q % 2 = 0 THEN q ELSE q + 1

\* int(round((valor - inteiro) * 100))
Centavos(v) == Round(v.micros * 100, Micro)

(***************************************************************************)
(* numero_para_moeda_ptbr (the definition in force: the second one,        *)
(* lines 861-898, textually equal to the first, lines 815-852)             *)
(***************************************************************************)

\* Faulty variant: keeps "um" in front of "mil" for a thousands group of 1.
Partes_um_mil(inteiro) ==
    LET bilhoes  == inteiro \div 1000000000
        resto1   == inteiro % 1000000000
        milhoes  == resto1 \div 1000000
        resto2   == resto1 % 1000000
        milhares == resto2 \div 1000
        centenas == resto2 % 1000
        p1 == AppendIf(<<>>, bilhoes # 0, _bloco_extenso(bilhoes, "bilhão", "bilhões"))
        p2 == AppendIf(p1, milhoes # 0, _bloco_extenso(milhoes, "milhão", "milhões"))
        p3 == AppendIf(p2, milhares # 0, _extenso_0_999(milhares) \o " mil")
    IN  AppendIf(p3, centenas # 0, _extenso_0_999(centenas))

\* lines 872-887: the list partes
Partes(inteiro) ==
    LET bilhoes  == inteiro \div 1000000000
        resto1   == inteiro % 1000000000
        milhoes  == resto1 \div 1000000
        resto2   == resto1 % 1000000
        milhares == resto2 \div 1000
        centenas == resto2 % 1000
        p1 == AppendIf(<<>>, bilhoes # 0, _bloco_extenso(bilhoes, "bilhão", "bilhões"))
        p2 == AppendIf(p1, milhoes # 0, _bloco_extenso(milhoes, "milhão", "milhões"))
        p3 == AppendIf(p2, milhares # 0,
                       IF milhares = 1 THEN "mil" ELSE _extenso_0_999(milhares) \o " mil")
    IN  AppendIf(p3, centenas # 0, _extenso_0_999(centenas))

\* Faulty variant: joins the groups with " e ".
Partes_reais_e(inteiro) ==
    IF Partes(inteiro) = <<>> THEN "zero" ELSE Join(Partes(inteiro), " e ")

\* line 889: partes_reais
Partes_reais(inteiro) ==
    IF Partes(inteiro) = <<>> THEN "zero"
    ELSE Replace(Join(Partes(inteiro), " "), "mil e ", "mil ")

\* frase[0].upper() + frase[1:] if frase else frase
Capitalizar(fr) == IF fr = "" THEN fr ELSE Upper(CharAt(fr, 1)) \o From(fr, 2)

\* Faulty variant: the unit is always plural.
Frase_sempre_reais(v) ==
    LET inteiro  == IntDe(v)
        centavos == Centavos(v)
        fr1 == Partes_reais(inteiro) \o " " \o "reais"
    IN  IF centavos # 0
        THEN fr1 \o " e " \o _extenso_0_999(centavos) \o " "
                 \o (IF centavos = 1 THEN "centavo" ELSE "centavos")
        ELSE fr1

\* lines 870-896, valor >= 0: the phrase before capitalisation
Frase(v) ==
    LET inteiro    == IntDe(v)
        centavos   == Centavos(v)
        sufx_reais == IF inteiro = 1 THEN "real" ELSE "reais"
        fr1        == Partes_reais(inteiro) \o " " \o sufx_reais
    IN  IF centavos # 0
        THEN fr1 \o " e " \o _extenso_0_999(centavos) \o " "
                 \o (IF centavos = 1 THEN "centavo" ELSE "centavos")
        ELSE fr1

RECURSIVE numero_para_moeda_ptbr(_)
numero_para_moeda_ptbr(v) ==
    IF Menor0(v)
    THEN LET fr == "menos " \o numero_para_moeda_ptbr(Negar(v))
         IN  Upper(CharAt(fr, 1)) \o From(fr, 2)
    ELSE Capitalizar(Frase(v))

(***************************************************************************)
(* Outcome of a call: a returned value or a raised exception               *)
(***************************************************************************)
Ret(v) == [tipo |-> "retorno", val |-> v]
Exc(nome) == [tipo |-> "excecao", nome |-> nome]

(***************************************************************************)
(* str -> number conversions                                               *)
(***************************************************************************)
Digitos == "0123456789"

\* ch is one of 0..9
EhDigito(ch) == \E d \in 1 .. 10 : CharAt(Digitos, d) = ch

DigitVal(ch) == (CHOOSE d \in 1 .. 10 : CharAt(Digitos, d) = ch) - 1

\* every character of str is a digit (true of "")
RECURSIVE SoDigitos(_)
SoDigitos(str) ==
    IF str = "" THEN TRUE
    ELSE EhDigito(CharAt(str, 1)) /\ SoDigitos(From(str, 2))

\* int(str) for a string of digits ("" counts 0)
RECURSIVE StrToNat(_)
StrToNat(str) ==
    IF str = "" THEN 0
    ELSE StrToNat(SubSeq(str, 1, Len(str) - 1)) * 10 + DigitVal(CharAt(str, Len(str)))

\* position of the first occurrence of the character ch in str, 0 if none
RECURSIVE IndexOf(_, _)
IndexOf(str, ch) ==
    IF str = "" THEN 0
    ELSE IF CharAt(str, 1) = ch THEN 1
    ELSE LET i == IndexOf(From(str, 2), ch) IN IF i = 0 THEN 0 ELSE i + 1

\* the fraction digits f of "<i>.<f>" in millionths (f has at most 6 digits
\* in every string the model parses)
RECURSIVE FracMicros(_, _)
FracMicros(f, peso) ==
    IF f = "" \/ peso = 0 THEN 0
    ELSE DigitVal(CharAt(f, 1)) * peso + FracMicros(From(f, 2), peso \div 10)

\* float(str) on strings without whitespace, exponent, "_", "inf", "nan":
\* [sign] digits [. digits] | [sign] . digits ; anything else is ValueError
PyFloat(str) ==
    LET neg  == StartsWith(str, "-")
        body == IF neg THEN From(str, 2) ELSE str
        dot  == IndexOf(body, ".")
        ip   == IF dot = 0 THEN body ELSE SubSeq(body, 1, dot - 1)
        fp   == IF dot = 0 THEN "" ELSE From(body, dot + 1)
    IN  IF SoDigitos(ip) /\ SoDigitos(fp) /\ Len(ip) + Len(fp) > 0
        THEN Ret(Float(neg, StrToNat(ip), FracMicros(fp, Micro \div 10)))
        ELSE Exc("ValueError")

\* str.strip() (the only whitespace in the inputs is the space)
RECURSIVE Strip(_)
Strip(str) ==
    IF str = "" THEN str
    ELSE IF CharAt(str, 1) = " " THEN Strip(From(str, 2))
    ELSE IF CharAt(str, Len(str)) = " " THEN Strip(SubSeq(str, 1, Len(str) - 1))
    ELSE str

\* re.sub(r"[^\d,\.]", "", str): keeps the digits, "," and "."
RECURSIVE ReSubNaoNumerico(_)
ReSubNaoNumerico(str) ==
    IF str = "" THEN str
    ELSE LET ch == CharAt(str, 1)
         IN  (IF EhDigito(ch) \/ ch = "," \/ ch = "." THEN ch ELSE "")
             \o ReSubNaoNumerico(From(str, 2))

\* try: return float(str) / except ValueError: return 0.0
FloatOuZero(str) ==
    IF PyFloat(str).tipo = "retorno" THEN PyFloat(str) ELSE Ret(Float(FALSE, 0, 0))

(***************************************************************************)
(* parse_valor_brl (lines 762-771)                                         *)
(***************************************************************************)
parse_valor_brl(str) ==
    IF str = "" THEN Ret(Float(FALSE, 0, 0))
    ELSE LET s1 == Replace(Replace(Strip(str), "R$", ""), " ", "")
             s2 == Replace(Replace(s1, ".", ""), ",", ".")
         IN  FloatOuZero(s2)

(***************************************************************************)
(* _parse_valor_brl (lines 902-917)                                        *)
(***************************************************************************)

\* The names the import statements bind at module level (lines 1-14); no
\* other statement of the file binds "re", the name line 908 looks up.
NomesGlobais == {"st", "load_workbook", "Font", "Alignment", "range_boundaries",
                 "BytesIO", "os", "base64", "datetime", "json", "OpenAI",
                 "load_dotenv", "Path", "List", "Document"}

_parse_valor_brl(str) ==
    IF str = "" THEN Ret(Float(FALSE, 0, 0))
    ELSE LET s1 == Strip(str)
         IN  IF "re" \notin NomesGlobais THEN Exc("NameError")
             ELSE LET s2 == ReSubNaoNumerico(s1)
                      s3 == IF Contains(s2, ",")
                            THEN Replace(Replace(s2, ".", ""), ",", ".")
                            ELSE s2
                  IN  IF s2 = "" THEN Ret(Float(FALSE, 0, 0)) ELSE FloatOuZero(s3)

(***************************************************************************)
(* formatar_data_extenso (lines 50-62)                                     *)
(***************************************************************************)
meses_pt == <<"janeiro", "fevereiro", "março", "abril", "maio", "junho",
              "julho", "agosto", "setembro", "outubro", "novembro", "dezembro">>

\* str(k) for k >= 0
RECURSIVE NatToStr(_)
NatToStr(k) ==
    IF k < 10 THEN CharAt(Digitos, k + 1)
    ELSE NatToStr(k \div 10) \o CharAt(Digitos, (k % 10) + 1)

\* f"{k:02d}"
Pad2(k) == IF k < 10 THEN "0" \o NatToStr(k) ELSE NatToStr(k)

\* the directive %d: 3[0-1]|[1-2]\d|0[1-9]|[1-9]| [1-9]
CasaDia(tok) ==
    \/ Len(tok) = 1 /\ EhDigito(tok) /\ tok # "0"
    \/ /\ Len(tok) = 2
       /\ \/ CharAt(tok, 1) \in {"0", " "} /\ EhDigito(CharAt(tok, 2)) /\ CharAt(tok, 2) # "0"
          \/ SoDigitos(tok) /\ StrToNat(tok) \in 10 .. 31

\* the directive %m: 1[0-2]|0[1-9]|[1-9]
CasaMes(tok) ==
    \/ Len(tok) = 1 /\ EhDigito(tok) /\ tok # "0"
    \/ Len(tok) = 2 /\ SoDigitos(tok) /\ StrToNat(tok) \in 1 .. 12

\* the directive %Y: \d\d\d\d
CasaAno(tok) == Len(tok) = 4 /\ SoDigitos(tok)

Bissexto(ano) == ano % 4 = 0 /\ (ano % 100 # 0 \/ ano % 400 = 0)

\* calendar.monthrange: days of a month
DiasNoMes(mes, ano) ==
    IF mes = 2 THEN (IF Bissexto(ano) THEN 29 ELSE 28)
    ELSE IF mes \in {4, 6, 9, 11} THEN 30 ELSE 31

\* Faulty variant: the day is not checked against the length of the month.
Strptime_sem_calendario(str) ==
    LET i1   == IndexOf(str, "/")
        dtok == SubSeq(str, 1, i1 - 1)
        r1   == From(str, i1 + 1)
        i2   == IndexOf(r1, "/")
        mtok == SubSeq(r1, 1, i2 - 1)
        ytok == From(r1, i2 + 1)
    IN  IF i1 = 0 \/ i2 = 0 THEN Exc("ValueError")
        ELSE IF ~(CasaDia(dtok) /\ CasaMes(mtok) /\ CasaAno(ytok)) THEN Exc("ValueError")
        ELSE Ret([day |-> StrToNat(Strip(dtok)), month |-> StrToNat(mtok),
                  year |-> StrToNat(ytok)])

\* datetime.strptime(str, "%d/%m/%Y"): the whole string must match
\* <%d>/<%m>/<%Y>, and the date must exist (year >= 1)
Strptime(str) ==
    LET i1   == IndexOf(str, "/")
        dtok == SubSeq(str, 1, i1 - 1)
        r1   == From(str, i1 + 1)
        i2   == IndexOf(r1, "/")
        mtok == SubSeq(r1, 1, i2 - 1)
        ytok == From(r1, i2 + 1)
        dia  == StrToNat(Strip(dtok))
        mes  == StrToNat(mtok)
        ano  == StrToNat(ytok)
    IN  IF i1 = 0 \/ i2 = 0 THEN Exc("ValueError")
        ELSE IF ~(CasaDia(dtok) /\ CasaMes(mtok) /\ CasaAno(ytok)) THEN Exc("ValueError")
        ELSE IF ano < 1 \/ dia > DiasNoMes(mes, ano) THEN Exc("ValueError")
        ELSE Ret([day |-> dia, month |-> mes, year |-> ano])

\* Faulty variant: the day is not zero-padded.
Formatar_sem_zero(str, cid, est) ==
    LET data == Strptime(str)
    IN  IF data.tipo = "retorno"
        THEN cid \o " - " \o est \o ", " \o NatToStr(data.val.day) \o " de "
                 \o meses_pt[data.val.month] \o " de " \o NatToStr(data.val.year) \o "."
        ELSE cid \o " - " \o est

\* meses_pt is a dict keyed 1..12, as the tuple here
formatar_data_extenso(str, cid, est) ==
    LET data == Strptime(str)
    IN  IF data.tipo = "retorno"
        THEN cid \o " - " \o est \o ", " \o Pad2(data.val.day) \o " de "
                 \o meses_pt[data.val.month] \o " de " \o NatToStr(data.val.year) \o "."
        ELSE cid \o " - " \o est

(***************************************************************************)
(* The worksheet and get_top_left_of_merged_cell (lines 65-70)             *)
(*                                                                         *)
(* A worksheet is [merged |-> set of range strings such as "B2:D2",        *)
(* cells |-> function from the coordinates of the cells it holds to their  *)
(* values].  A cell is named by its coordinate.                            *)
(***************************************************************************)
Colunas == "ABCDEFGHIJK"

\* the value of an empty cell
None == "<None>"

\* column index and row of a coordinate such as "C8"
ColDe(c) == IndexOf(Colunas, CharAt(c, 1))
LinhaDe(c) == StrToNat(From(c, 2))

\* the coordinate of (column, row)
Coord(col, row) == CharAt(Colunas, col) \o NatToStr(row)

\* str(merged_range) of the range from (c1, r1) to (c2, r2)
RangeStr(c1, r1, c2, r2) == Coord(c1, r1) \o ":" \o Coord(c2, r2)

\* range_boundaries("B2:D2") = (2, 2, 4, 2)
range_boundaries(rs) ==
    LET i == IndexOf(rs, ":")
        a == SubSeq(rs, 1, i - 1)
        b == From(rs, i + 1)
    IN  [min_col |-> ColDe(a), min_row |-> LinhaDe(a),
         max_col |-> ColDe(b), max_row |-> LinhaDe(b)]

\* cell_coordinate in merged_range
CoordEmRange(c, rs) ==
    LET b == range_boundaries(rs)
    IN  /\ ColDe(c) \in b.min_col .. b.max_col
        /\ LinhaDe(c) \in b.min_row .. b.max_row

\* Faulty variant: the cell is created anew, empty, even when the worksheet
\* holds it.
ws_cell_limpa(w, c) ==
    [cel |-> c, ws |-> [w EXCEPT !.cells = (c :> None) @@ @]]

\* ws.cell(row, column) and ws[coordinate]: the cell at the coordinate, which
\* the worksheet creates empty when it does not hold it yet
ws_cell(w, c) ==
    [cel |-> c,
     ws  |-> IF c \in DOMAIN w.cells THEN w ELSE [w EXCEPT !.cells = @ @@ (c :> None)]]

\* cell.value
Valor(w, c) == IF c \in DOMAIN w.cells THEN w.cells[c] ELSE None

\* Faulty variant: the merged regions are not consulted.
Get_sem_mescla(w, c) == ws_cell(w, c)

\* the ranges of a template do not overlap, so at most one contains c
get_top_left_of_merged_cell(w, c) ==
    LET dentro == { r \in w.merged : CoordEmRange(c, r) }
    IN  IF dentro # {}
        THEN LET b == range_boundaries(CHOOSE r \in dentro : TRUE)
             IN  ws_cell(w, Coord(b.min_col, b.min_row))
        ELSE ws_cell(w, c)

(***************************************************************************)
(* The PDF import: extrair_dados_cliente_de_pdf (lines 158-228),           *)
(* importar_pdf_e_preencher (231-239), _merge_session_state (93-100)       *)
(*                                                                         *)
(* The text of the language model is a sequence of lexical tokens:         *)
(* "{", "}", ",", a key with its colon ("\"CLIENTE\":"), a string in       *)
(* quotes, null, a number, or anything else (not JSON).  A decoded JSON    *)
(* value is [t |-> "obj" | "str" | "num" | "null", v |-> its text,         *)
(* m |-> for an object, the function from its keys to their values (a      *)
(* Python dict)].                                                          *)
(***************************************************************************)
JNull == [t |-> "null", v |-> "", m |-> <<>>]
JStr(x) == [t |-> "str", v |-> x, m |-> <<>>]
JNum(x) == [t |-> "num", v |-> x, m |-> <<>>]
JObj(f) == [t |-> "obj", v |-> "", m |-> f]

EhChave(tok) ==
    Len(tok) >= 3 /\ CharAt(tok, 1) = "\"" /\ SubSeq(tok, Len(tok) - 1, Len(tok)) = "\":"
EhTexto(tok) ==
    Len(tok) >= 2 /\ CharAt(tok, 1) = "\"" /\ CharAt(tok, Len(tok)) = "\""

Falha == [ok |-> FALSE, val |-> JNull, resto |-> <<>>]

\* json decoder: a value at the head of the tokens, and the tokens after it
RECURSIVE json_valor(_), json_membros(_, _)
json_valor(tk) ==
    IF tk = <<>> THEN Falha
    ELSE LET h == Head(tk)
         IN  IF h = "null" THEN [ok |-> TRUE, val |-> JNull, resto |-> Tail(tk)]
             ELSE IF EhTexto(h)
                  THEN [ok |-> TRUE, val |-> JStr(SubSeq(h, 2, Len(h) - 1)), resto |-> Tail(tk)]
             ELSE IF SoDigitos(h)
                  THEN [ok |-> TRUE, val |-> JNum(h), resto |-> Tail(tk)]
             ELSE IF h = "{"
                  THEN IF Len(tk) >= 2 /\ tk[2] = "}"
                       THEN [ok |-> TRUE, val |-> JObj(<<>>), resto |-> SubSeq(tk, 3, Len(tk))]
                       ELSE json_membros(Tail(tk), <<>>)
             ELSE Falha

\* the members of an object after "{": key value { , key value } "}"; a key
\* given twice keeps its last value
json_membros(tk, acc) ==
    IF tk = <<>> \/ ~EhChave(Head(tk)) THEN Falha
    ELSE LET k == SubSeq(Head(tk), 2, Len(Head(tk)) - 2)
             m == json_valor(Tail(tk))
             f == (k :> m.val) @@ acc
         IN  IF ~m.ok \/ m.resto = <<>> THEN Falha
             ELSE IF Head(m.resto) = "}"
                  THEN [ok |-> TRUE, val |-> JObj(f), resto |-> Tail(m.resto)]
             ELSE IF Head(m.resto) = ","
                  THEN json_membros(Tail(m.resto), f)
             ELSE Falha

\* json.loads: the whole text must be one value
json_loads(tk) ==
    LET m == json_valor(tk)
    IN  IF m.ok /\ m.resto = <<>> THEN Ret(m.val) ELSE Exc("JSONDecodeError")

\* str.find and str.rfind of a one-token text: 0-based, -1 when absent
find(tk, x) ==
    IF \E i \in 1 .. Len(tk) : tk[i] = x
    THEN (CHOOSE i \in 1 .. Len(tk) : tk[i] = x /\ \A j \in 1 .. (i - 1) : tk[j] # x) - 1
    ELSE -1

\* Faulty variant: the first "}" is taken instead of the last.
Rfind_primeiro(tk, x) == find(tk, x)

rfind(tk, x) ==
    IF \E i \in 1 .. Len(tk) : tk[i] = x
    THEN (CHOOSE i \in 1 .. Len(tk) : tk[i] = x /\ \A j \in (i + 1) .. Len(tk) : tk[j] # x) - 1
    ELSE -1

\* resp.output_text or ""
OutputText(c) == IF c.tipo = "none" THEN <<>> ELSE c.val

\* Faulty variant: the client is created whatever the key.
Chega_sem_chave(key) == TRUE

\* lines 165-169: OpenAI(api_key=api_key) and the calls on it are reached
\* only past the test of the key
ChegaAoCliente(key) == key # ""

\* Faulty variant: the key is not tested.
Extrair_sem_chave(key, c) ==
    IF c.tipo = "excecao" THEN c
    ELSE LET raw == OutputText(c)
             data == json_loads(raw)
         IN  IF data.tipo = "retorno" THEN data
             ELSE LET ini == find(raw, "{")
                      fim == rfind(raw, "}")
                  IN  IF ini >= 0 /\ fim > ini
                      THEN json_loads(SubSeq(raw, ini + 1, fim + 1))
                      ELSE Exc("ValueError")

\* key: the environment's OPENAI_API_KEY ("" when unset); c: the outcome of
\* the two client calls (an exception, or the response's output_text)
extrair_dados_cliente_de_pdf(key, c) ==
    IF key = "" THEN Exc("RuntimeError")
    ELSE IF c.tipo = "excecao" THEN c
    ELSE LET raw == OutputText(c)
             data == json_loads(raw)
         IN  IF data.tipo = "retorno" THEN data
             ELSE LET ini == find(raw, "{")
                      fim == rfind(raw, "}")
                  IN  IF ini >= 0 /\ fim > ini
                      THEN json_loads(SubSeq(raw, ini + 1, fim + 1))
                      ELSE Exc("ValueError")

\* data.get(grupo, {}) of a decoded value: only a dict has .get
DataGet(data, grupo) ==
    IF data.t # "obj" THEN Exc("AttributeError")
    ELSE IF grupo \in DOMAIN data.m THEN Ret(data.m[grupo]) ELSE Ret(JObj(<<>>))

\* merged.update(x): the items of a dict replace those of merged; an empty
\* string has no items; any other value is no mapping
DictUpdate(m, x) ==
    IF x.t = "obj" THEN Ret(x.m @@ m)
    ELSE IF x.t = "str" /\ x.v = "" THEN Ret(m)
    ELSE IF x.t = "str" THEN Exc("ValueError")
    ELSE Exc("TypeError")

\* the dict importar_pdf_e_preencher builds from the three groups
Merged(data) ==
    LET g1 == DataGet(data, "IDENTIFICACAO_CIVIL")
        g2 == DataGet(data, "ENDERECO")
        g3 == DataGet(data, "CONTATO")
        m1 == IF g1.tipo = "retorno" THEN DictUpdate(<<>>, g1.val) ELSE g1
        m2 == IF m1.tipo = "retorno" THEN DictUpdate(m1.val, g2.val) ELSE m1
        m3 == IF m2.tipo = "retorno" THEN DictUpdate(m2.val, g3.val) ELSE m2
    IN  m3

\* str(v) of a decoded value (a dict only as far as "{}", the empty one)
PyStr(v) == IF v.t = "obj" THEN "{}" ELSE v.v

\* Faulty variant: the text is stored as it came, blank or not.
Merge_sem_filtro(st, d) ==
    [ k \in DOMAIN st \cup { j \in DOMAIN d : d[j].t # "null" } |->
        IF k \in DOMAIN d /\ d[k].t # "null" THEN PyStr(d[k]) ELSE st[k] ]

\* _merge_session_state: st.session_state after the loop over d.items()
_merge_session_state(st, d) ==
    LET novos == { k \in DOMAIN d : d[k].t # "null" /\ Strip(PyStr(d[k])) # "" }
    IN  [ k \in DOMAIN st \cup novos |->
            IF k \in novos THEN Strip(PyStr(d[k])) ELSE st[k] ]

(***************************************************************************)
(* The button "Gerar documento preenchido" (lines 384-755)                 *)
(*                                                                         *)
(* dados is the function from the keys of the dict to their texts.  Only   *)
(* cell values are modelled; fonts, alignments and row heights are not.    *)
(***************************************************************************)
\* dados.get(campo, "")
DictGet(d, campo) == IF campo \in DOMAIN d THEN d[campo] ELSE ""

\* ch.lower() and str.lower() (unaccented letters; any other character is
\* its own lower case here)
LowerCh(ch) ==
    IF \E i \in 1..Len(Maiusculas) : CharAt(Maiusculas, i) = ch
    THEN CharAt(Minusculas, CHOOSE i \in 1..Len(Maiusculas) : CharAt(Maiusculas, i) = ch)
    ELSE ch

\* Faulty variant: the text is compared as typed.
Lower_como_digitado(str) == str

RECURSIVE Lower(_)
Lower(str) == IF str = "" THEN "" ELSE LowerCh(CharAt(str, 1)) \o Lower(From(str, 2))

\* c lies in a merged range and is not its top-left cell: ws[c] is then a
\* MergedCell, whose value cannot be assigned
CelulaMesclada(w, c) ==
    \E r \in w.merged :
        /\ CoordEmRange(c, r)
        /\ c # Coord(range_boundaries(r).min_col, range_boundaries(r).min_row)

\* ws[c] = v after the steps that gave r; v is the outcome of composing the
\* text.  (rr and vv name the values of r and v, so that each is computed
\* once.)
SetItem(r, c, v) ==
    CHOOSE x \in
        { IF rr.tipo # "retorno" THEN rr
          ELSE CHOOSE y \in
                { IF vv.tipo # "retorno" THEN vv
                  ELSE IF CelulaMesclada(rr.val, c) THEN Exc("AttributeError")
                  ELSE Ret([rr.val EXCEPT !.cells = (c :> vv.val) @@ @]) : vv \in {v} } : TRUE
          : rr \in {r} } : TRUE

\* target_cell = get_top_left_of_merged_cell(ws, c); target_cell.value = v
SetAlvo(w, c, v) ==
    LET a == get_top_left_of_merged_cell(w, c)
    IN  [a.ws EXCEPT !.cells = (a.cel :> v) @@ @]

\* Faulty variant: the value is written at the coordinate itself.
Preencher_sem_mescla(r, pares, d) ==
    CHOOSE x \in
        { IF rr.tipo # "retorno" THEN rr
          ELSE Ret([rr.val EXCEPT !.cells =
                [c \in { pares[i][1] : i \in 1 .. Len(pares) } |->
                    DictGet(d, pares[CHOOSE i \in 1 .. Len(pares) : pares[i][1] = c][2])] @@ @])
          : rr \in {r} } : TRUE

\* for celula, campo in preenchimentos.items(): the loop of a FieldMap
RECURSIVE Preencher(_, _, _)
Preencher(r, pares, d) ==
    CHOOSE x \in
        { IF rr.tipo # "retorno" \/ pares = <<>> THEN rr
          ELSE Preencher(Ret(SetAlvo(rr.val, Head(pares)[1], DictGet(d, Head(pares)[2]))),
                         Tail(pares), d)
          : rr \in {r} } : TRUE

\* for linha in [...]: ws[linha].font = ...: fetches each cell, creating the
\* ones the worksheet does not hold
RECURSIVE Formatar(_, _)
Formatar(r, cs) ==
    CHOOSE x \in
        { IF rr.tipo # "retorno" \/ cs = <<>> THEN rr
          ELSE Formatar(Ret(IF CelulaMesclada(rr.val, Head(cs)) THEN rr.val
                            ELSE ws_cell(rr.val, Head(cs)).ws), Tail(cs))
          : rr \in {r} } : TRUE

\* an f-string indexing dados[k] for the keys ks: KeyError when one is absent
Indexado(d, ks, texto) == IF ks \subseteq DOMAIN d THEN Ret(texto) ELSE Exc("KeyError")

CamposHipo == {"CLIENTE", "ESTADO_CIVIL", "PROFISSAO", "RG", "UF", "CPF", "CIDADE",
               "ENDERECO", "COMPLEMENTO", "Nº", "BAIRRO", "CEP"}

\* lines 398-402 and 627-631
TextoHipo(d) ==
    Indexado(d, CamposHipo,
        "Eu, " \o d["CLIENTE"] \o ", brasileiro (a), estado civil " \o d["ESTADO_CIVIL"]
        \o ", Profissão " \o d["PROFISSAO"] \o ", "
        \o "RG " \o d["RG"] \o " SSP " \o d["UF"] \o ". Inscrito no CPF sob o nº " \o d["CPF"]
        \o " residente e domiciliado nesta cidade de "
        \o d["CIDADE"] \o "/" \o d["UF"] \o " na " \o d["ENDERECO"] \o " - " \o d["COMPLEMENTO"]
        \o " Nº " \o d["Nº"] \o ", Bairro: " \o d["BAIRRO"] \o ", CEP:" \o d["CEP"])

CamposResid == {"DECLARANTE", "DECLARANTE_ESTADO_CIVIL", "DECLARANTE_PROFISSAO", "CLIENTE",
                "ESTADO_CIVIL", "PROFISSAO", "RG", "CPF", "ENDERECO", "Nº", "COMPLEMENTO",
                "BAIRRO", "CEP", "CIDADE", "UF"}

\* lines 414-420 and 530-536
TextoResid(d) ==
    Indexado(d, CamposResid,
        "Eu, " \o d["DECLARANTE"] \o ". Brasileiro (a), estado civil "
        \o d["DECLARANTE_ESTADO_CIVIL"] \o ", Profissão " \o d["DECLARANTE_PROFISSAO"] \o ".\n"
        \o "DECLARO para os devidos fins de comprovação de residência, sob as penas da lei (art. 2º da lei 7.115/83), que "
        \o d["CLIENTE"] \o ", "
        \o "Brasileiro (a), Estado Civil " \o d["ESTADO_CIVIL"] \o ", Profissão: " \o d["PROFISSAO"]
        \o ", portador(a), do RG: " \o d["RG"] \o " e CPF: " \o d["CPF"] \o ", "
        \o "é residente e domiciliado na " \o d["ENDERECO"] \o " - Nº " \o d["Nº"] \o " - "
        \o d["COMPLEMENTO"] \o ". Bairro: " \o d["BAIRRO"] \o ". "
        \o "CEP: " \o d["CEP"] \o ". Cidade: " \o d["CIDADE"] \o ", UF: " \o d["UF"] \o ".")

\* lines 516-519 and 587-590
EnderecoFormatado(d) ==
    DictGet(d, "ENDERECO") \o ", Nº " \o DictGet(d, "Nº") \o ", "
    \o DictGet(d, "BAIRRO") \o ", CEP: " \o DictGet(d, "CEP") \o ", " \o DictGet(d, "COMPLEMENTO")

Clausula30 ==
    "I) 30% (trinta por cento) sobre o valor recebido pelo CONTRATANTE em razão de SENTENÇA ou ACORDO, seja este JUDICIAL ou EXTRAJUDICIAL;"
Clausula35 ==
    "I) 35% (trinta e cinco por cento) sobre o valor recebido pelo CONTRATANTE em razão de SENTENÇA ou ACORDO, seja este JUDICIAL ou EXTRAJUDICIAL;"

\* lines 470-474 and 715-719
Clausula(d) == IF Lower(DictGet(d, "CIDADE")) = "manaus" THEN Clausula30 ELSE Clausula35

\* lines 483 and 728
ClausulaComarca(d) ==
    "CLÁUSULA 17ª - As  partes  contratantes  elegem  o  foro  da  Comarca  de "
    \o DictGet(d, "COMARCA")
    \o " para dirimir quaisquer controvérsias oriundas do presente contrato."

\* formatar_data_extenso(dados.get("DATA", ""), dados.get("CIDADE", ""), dados.get("UF", ""))
DataExt(d) == formatar_data_extenso(DictGet(d, "DATA"), DictGet(d, "CIDADE"), DictGet(d, "UF"))

\* lines 601-603
ValorE23(d) ==
    LET nome_roga == Strip(DictGet(d, "ROGATARIO_NOME"))
        cpf_roga  == Strip(DictGet(d, "ROGATARIO_CPF"))
    IN  IF nome_roga # "" THEN nome_roga \o ", CPF: " \o cpf_roga ELSE ""

\* lines 432-461
PreenchContrato ==
    <<
       <<"C8", "CLIENTE">>, <<"B10", "ESTADO_CIVIL">>, <<"G10", "PROFISSAO">>,
       <<"B12", "RG">>, <<"F12", "ORGAO_EXPEDIDOR">>, <<"H12", "CPF">>,
       <<"B14", "ENDERECO">>, <<"B16", "CEP">>, <<"H14", "COMPLEMENTO">>,
       <<"F1", "INDICACAO_CLIENTE">>, <<"F2", "PARCERIA_ADVOGADO">>, <<"F3", "ATENDENTE">>,
       <<"E16", "CIDADE">>, <<"I16", "UF">>, <<"B18", "EMAIL">>,
       <<"B20", "WHATSAPP">>, <<"E20", "TELEFONE2">>, <<"H20", "TELEFONE3">>,
       <<"G68", "CIDADE">>, <<"B21", "SENHA_GOV">>, <<"B84", "TESTEMUNHA1">>,
       <<"B85", "TESTEMUNHA1_CPF">>, <<"B86", "TESTEMUNHA1_RG">>, <<"B87", "TESTEMUNHA1_END">>,
       <<"G84", "TESTEMUNHA2">>, <<"G85", "TESTEMUNHA2_CPF">>, <<"G86", "TESTEMUNHA2_RG">>,
       <<"G87", "TESTEMUNHA2_END">>
    >>

\* lines 498-506
PreenchProcuracao ==
    <<
       <<"C3", "CLIENTE">>, <<"C4", "ESTADO_CIVIL">>, <<"G4", "PROFISSAO">>,
       <<"B5", "RG">>, <<"G5", "ORGAO_EXPEDIDOR">>, <<"B6", "CPF">>,
       <<"B9", "EMAIL">>
    >>

\* lines 547-560
PreenchResidAnalf ==
    <<
       <<"B26", "ROGATARIO_NOME">>, <<"B27", "ROGATARIO_RG">>, <<"B28", "ROGATARIO_CPF">>,
       <<"B29", "ROGATARIO_END">>, <<"B32", "TESTEMUNHA1">>, <<"B34", "TESTEMUNHA1_CPF">>,
       <<"B33", "TESTEMUNHA1_RG">>, <<"B35", "TESTEMUNHA1_END">>, <<"B38", "TESTEMUNHA2">>,
       <<"B40", "TESTEMUNHA2_CPF">>, <<"B39", "TESTEMUNHA2_RG">>, <<"B41", "TESTEMUNHA2_END">>
    >>

\* lines 570-578
PreenchProcAnalf1 ==
    <<
       <<"C3", "CLIENTE">>, <<"C4", "ESTADO_CIVIL">>, <<"F4", "PROFISSAO">>,
       <<"B5", "RG">>, <<"G5", "ORGAO_EXPEDIDOR">>, <<"B6", "CPF">>,
       <<"B9", "EMAIL">>
    >>

\* lines 610-617
PreenchProcAnalf2 ==
    <<
       <<"B26", "TESTEMUNHA1">>, <<"B28", "TESTEMUNHA1_CPF">>, <<"B27", "TESTEMUNHA1_END">>,
       <<"G26", "TESTEMUNHA2">>, <<"G28", "TESTEMUNHA2_CPF">>, <<"G27", "TESTEMUNHA2_END">>
    >>

\* lines 642-655
PreenchHipoAnalf ==
    <<
       <<"B24", "ROGATARIO_NOME">>, <<"B25", "ROGATARIO_RG">>, <<"B26", "ROGATARIO_CPF">>,
       <<"B27", "ROGATARIO_END">>, <<"B30", "TESTEMUNHA1">>, <<"B31", "TESTEMUNHA1_RG">>,
       <<"B32", "TESTEMUNHA1_CPF">>, <<"B33", "TESTEMUNHA1_END">>, <<"B36", "TESTEMUNHA2">>,
       <<"B37", "TESTEMUNHA2_RG">>, <<"B38", "TESTEMUNHA2_CPF">>, <<"B39", "TESTEMUNHA2_END">>
    >>

\* lines 665-706
PreenchContratoAnalf ==
    <<
       <<"C8", "CLIENTE">>, <<"B10", "ESTADO_CIVIL">>, <<"G10", "PROFISSAO">>,
       <<"B12", "RG">>, <<"F12", "ORGAO_EXPEDIDOR">>, <<"H12", "CPF">>,
       <<"B14", "ENDERECO">>, <<"B16", "CEP">>, <<"G14", "COMPLEMENTO">>,
       <<"F1", "INDICACAO_CLIENTE">>, <<"F2", "PARCERIA_ADVOGADO">>, <<"F3", "ATENDENTE">>,
       <<"E16", "CIDADE">>, <<"I16", "UF">>, <<"B18", "EMAIL">>,
       <<"B20", "WHATSAPP">>, <<"E20", "TELEFONE2">>, <<"H20", "TELEFONE3">>,
       <<"G68", "CIDADE">>, <<"B21", "SENHA_GOV">>, <<"B79", "ROGATARIO_NOME">>,
       <<"B80", "ROGATARIO_RG">>, <<"B81", "ROGATARIO_CPF">>, <<"B82", "ROGATARIO_END">>,
       <<"B85", "TESTEMUNHA1">>, <<"B87", "TESTEMUNHA1_CPF">>, <<"B86", "TESTEMUNHA1_RG">>,
       <<"B88", "TESTEMUNHA1_END">>, <<"B91", "TESTEMUNHA2">>, <<"B93", "TESTEMUNHA2_CPF">>,
       <<"B92", "TESTEMUNHA2_RG">>, <<"B94", "TESTEMUNHA2_END">>, <<"B102", "TESTEMUNHA1">>,
       <<"B103", "TESTEMUNHA1_CPF">>, <<"B104", "TESTEMUNHA1_RG">>, <<"B105", "TESTEMUNHA1_END">>,
       <<"G102", "TESTEMUNHA2">>, <<"G103", "TESTEMUNHA2_CPF">>, <<"G104", "TESTEMUNHA2_RG">>,
       <<"G105", "TESTEMUNHA2_END">>
    >>

\* the branch of each model name (lines 397-740); r is the loaded worksheet
\* lines 397-411
HipoAlfabetizado(r, d) ==
    SetItem(SetItem(r, "A8", TextoHipo(d)), "D25", Ret(DataExt(d)))

\* lines 413-429
ResidAlfabetizado(r, d) ==
    SetItem(SetItem(r, "A8", TextoResid(d)), "I17", Ret(DataExt(d)))

\* lines 431-495
ContratoAlfabetizado(r, d) ==
    LET r1 == Preencher(r, PreenchContrato, d)
        r2 == SetItem(r1, "A29", Ret(Clausula(d)))
        r3 == Formatar(r2, <<"A31", "A34", "A61", "A63", "A65", "B84", "B85", "B86",
                             "B87", "G84", "G85", "G86", "G87">>)
        r4 == SetItem(r3, "A68", Ret(ClausulaComarca(d)))
        r5 == SetItem(r4, "F72", Ret(DataExt(d)))
    IN  SetItem(r5, "A76", Ret(DictGet(d, "CLIENTE")))

\* lines 497-527
ProcAlfabetizado(r, d) ==
    LET r1 == Preencher(r, PreenchProcuracao, d)
        r2 == SetItem(r1, "A8", Ret(EnderecoFormatado(d)))
    IN  SetItem(r2, "I17", Ret(DataExt(d)))

\* lines 529-567
ResidAnalfabeto(r, d) ==
    LET r1 == SetItem(r, "A6", TextoResid(d))
        r2 == SetItem(r1, "I18", Ret(DataExt(d)))
    IN  Preencher(r2, PreenchResidAnalf, d)

\* lines 569-624
ProcAnalfabeto(r, d) ==
    LET r1 == Preencher(r, PreenchProcAnalf1, d)
        r2 == SetItem(r1, "A8", Ret(EnderecoFormatado(d)))
        r3 == SetItem(r2, "K17", Ret(DataExt(d)))
        r4 == CHOOSE x \in
                { IF rr.tipo = "retorno" THEN Ret(SetAlvo(rr.val, "E23", ValorE23(d))) ELSE rr
                  : rr \in {r3} } : TRUE
    IN  Preencher(r4, PreenchProcAnalf2, d)

\* lines 626-662
HipoAnalfabeto(r, d) ==
    LET r1 == SetItem(r, "A6", TextoHipo(d))
        r2 == SetItem(r1, "K20", Ret(DataExt(d)))
    IN  Preencher(r2, PreenchHipoAnalf, d)

\* lines 664-740
ContratoAnalfabeto(r, d) ==
    LET r1 == Preencher(r, PreenchContratoAnalf, d)
        r2 == SetItem(r1, "A29", Ret(Clausula(d)))
        r3 == Formatar(r2, <<"A31", "A34", "A58", "A64">>)
        r4 == SetItem(r3, "A67", Ret(ClausulaComarca(d)))
        r5 == SetItem(r4, "I71", Ret(DataExt(d)))
    IN  SetItem(r5, "A74", Ret(DictGet(d, "CLIENTE")))

Sufixo == "_ANALFABETO(A)"
ModelosSim == {"CONTRATO DE PRESTAÇÃO DE SERVIÇOS ADVOCATÍCIOS",
               "DECLARAÇÃO DE HIPOSSUFICIÊNCIA DE RENDA",
               "DECLARAÇÃO DE VIDA E RESIDÊNCIA",
               "PROCURAÇÃO AD JUDICIA ET EXTRA"}
ModelosNao == { m \o Sufixo : m \in ModelosSim }

\* the keys of modelos_arquivo for the answer of the radio (lines 354-368)
modelos_arquivo(op) == IF op = "Sim" THEN ModelosSim ELSE ModelosNao

\* Faulty variant: the chain has no branch for the names with the suffix.
Ramo_sem_sufixo(modelo, r, d) ==
    CASE modelo = "DECLARAÇÃO DE HIPOSSUFICIÊNCIA DE RENDA" -> HipoAlfabetizado(r, d)
      [] modelo = "DECLARAÇÃO DE VIDA E RESIDÊNCIA" -> ResidAlfabetizado(r, d)
      [] modelo = "CONTRATO DE PRESTAÇÃO DE SERVIÇOS ADVOCATÍCIOS" -> ContratoAlfabetizado(r, d)
      [] modelo = "PROCURAÇÃO AD JUDICIA ET EXTRA" -> ProcAlfabetizado(r, d)
      [] OTHER -> r

\* the if / elif chain on modelo_escolhido; a name no branch matches leaves
\* the worksheet as loaded
Ramo(modelo, r, d) ==
    CASE modelo = "DECLARAÇÃO DE HIPOSSUFICIÊNCIA DE RENDA" -> HipoAlfabetizado(r, d)
      [] modelo = "DECLARAÇÃO DE VIDA E RESIDÊNCIA" -> ResidAlfabetizado(r, d)
      [] modelo = "CONTRATO DE PRESTAÇÃO DE SERVIÇOS ADVOCATÍCIOS" -> ContratoAlfabetizado(r, d)
      [] modelo = "PROCURAÇÃO AD JUDICIA ET EXTRA" -> ProcAlfabetizado(r, d)
      [] modelo = "DECLARAÇÃO DE VIDA E RESIDÊNCIA_ANALFABETO(A)" -> ResidAnalfabeto(r, d)
      [] modelo = "PROCURAÇÃO AD JUDICIA ET EXTRA_ANALFABETO(A)" -> ProcAnalfabeto(r, d)
      [] modelo = "DECLARAÇÃO DE HIPOSSUFICIÊNCIA DE RENDA_ANALFABETO(A)" -> HipoAnalfabeto(r, d)
      [] modelo = "CONTRATO DE PRESTAÇÃO DE SERVIÇOS ADVOCATÍCIOS_ANALFABETO(A)" -> ContratoAnalfabeto(r, d)
      [] OTHER -> r

\* what a run of the handler leaves: the workbook loaded and filled (wb), the
\* stream saved (output), the name offered for download, and what the page
\* shows: "success", "error" (template not found) or "exception"
Nada == [tipo |-> "nada"]

\* Faulty variant: the template is loaded without asking whether it exists.
Gerar_sem_teste(modelo, d, op, fl, ex) ==
    CHOOSE x \in
        { IF r.tipo = "retorno"
          THEN [wb |-> r, output |-> r, file_name |-> Replace(modelo, " ", "_") \o ".xlsx",
                ui |-> "success"]
          ELSE [wb |-> r, output |-> Nada, file_name |-> "", ui |-> "exception"]
          : r \in {Ramo(modelo, Ret(fl), d)} } : TRUE

\* lines 384-755; fl is what load_workbook(...).active gives for the
\* template, ex the models whose template file exists
Gerar_documento(modelo, d, op, fl, ex) ==
    IF modelo \in modelos_arquivo(op) /\ modelo \in ex
    THEN CHOOSE x \in
            { IF r.tipo = "retorno"
              THEN [wb |-> r, output |-> r, file_name |-> Replace(modelo, " ", "_") \o ".xlsx",
                    ui |-> "success"]
              ELSE [wb |-> r, output |-> Nada, file_name |-> "", ui |-> "exception"]
              : r \in {Ramo(modelo, Ret(fl), d)} } : TRUE
    ELSE [wb |-> Nada, output |-> Nada, file_name |-> "", ui |-> "error"]

(***************************************************************************)
(* The receipt text (lines 919-993)                                        *)
(***************************************************************************)
MaiusculasAcento == "ÁÀÂÃÉÊÍÓÔÕÚÇ"
MinusculasAcento == "áàâãéêíóôõúç"

\* str.lower() of a text with accented letters
RECURSIVE LowerPt(_)
LowerPt(str) ==
    IF str = "" THEN ""
    ELSE LET ch == CharAt(str, 1)
             i  == IndexOf(MaiusculasAcento, ch)
         IN  (IF i > 0 THEN CharAt(MinusculasAcento, i) ELSE LowerCh(ch)) \o LowerPt(From(str, 2))

\* the digits of k in groups of three joined by sep: f"{k:,}"
RECURSIVE Milhares(_, _)
Milhares(k, sep) ==
    IF k < 1000 THEN NatToStr(k)
    ELSE LET g == k % 1000
         IN  Milhares(k \div 1000, sep) \o sep
               \o (IF g < 10 THEN "00" ELSE IF g < 100 THEN "0" ELSE "") \o NatToStr(g)

\* f"{valor_float:,.2f}".replace(",", "X").replace(".", ",").replace("X", ".")
FormatoBRL(v) ==
    LET c  == Round(v.micros * 100, Micro)
        i  == IF c = 100 THEN v.inteiro + 1 ELSE v.inteiro
        cc == IF c = 100 THEN 0 ELSE c
        us == (IF v.neg THEN "-" ELSE "") \o Milhares(i, ",") \o "." \o Pad2(cc)
    IN  Replace(Replace(Replace(us, ",", "X"), ".", ","), "X", ".")

\* the clock: datetime.now() at successive moments
Instantes ==
    << [dia |-> 4, mes |-> 11, ano |-> 2026, hora |-> 23, minuto |-> 58],
       [dia |-> 5, mes |-> 11, ano |-> 2026, hora |-> 0, minuto |-> 3] >>

\* strftime("%d/%m/%Y") and strftime("%H:%M")
StrfData(a) == Pad2(a.dia) \o "/" \o Pad2(a.mes) \o "/" \o NatToStr(a.ano)
StrfHora(a) == Pad2(a.hora) \o ":" \o Pad2(a.minuto)

\* (x or padrao).strip()
OuPadrao(x, padrao) == Strip(IF x # "" THEN x ELSE padrao)

\* lines 957-988: texto_base, or the exception of _parse_valor_brl
texto_base(d, rc, agora) ==
    LET valor_float == _parse_valor_brl(rc.valor_str)
    IN  IF valor_float.tipo # "retorno" THEN valor_float
        ELSE LET valor_extenso_auto == numero_para_moeda_ptbr(valor_float.val)
                 valor_extenso_final ==
                     IF rc.manual_extenso /\ Strip(rc.extenso_manual) # ""
                     THEN Strip(rc.extenso_manual) ELSE valor_extenso_auto
                 nome_cliente == OuPadrao(DictGet(d, "CLIENTE"), "CLIENTE")
                 cpf_cliente  == OuPadrao(DictGet(d, "CPF"), "CPF")
                 data_recibo  == StrfData(agora)
                 hora_recibo  == IF Strip(rc.hora) # "" THEN Strip(rc.hora) ELSE StrfHora(agora)
             IN  Ret("Recebi de " \o nome_cliente \o ", portador(a) do CPF " \o cpf_cliente
                     \o ", a importância de R$ " \o FormatoBRL(valor_float.val) \o " "
                     \o "(" \o valor_extenso_final \o "), face à " \o LowerPt(rc.tipo)
                     \o " realizada no dia " \o data_recibo \o ", "
                     \o "às " \o hora_recibo \o " horas, qual dou plena quitação.")

(***************************************************************************)
(* Input domains                                                           *)
(***************************************************************************)
MaxGrupo == 3
MaxDenso == 2500
MaxInteiroFino == 2

\* values of a three-digit group
Grupos == (0 .. MaxGrupo) \cup {21, 100, 999}
CentenasAmostra == {0, 1, 21, 99, 100, 101, 200, 234, 999}

\* whole parts: every one up to MaxDenso, and group combinations up to
\* 1,999,999,999 (the largest the 32-bit integers of TLC hold)
Inteiros ==
    (0 .. MaxDenso) \cup
    { b * 1000000000 + a * 1000000 + k * 1000 + c :
        b \in 0 .. 1, a \in Grupos, k \in Grupos, c \in CentenasAmostra }

\* thousandths on which round() is decided by the decimal value
MilsExatos == { m \in 0 .. 999 : m % 10 # 5 \/ m % 125 = 0 }
MilsAmostra == {0, 4, 10, 125, 375, 560, 994, 996, 999}

Valores ==
    { Float(neg, i, m * 1000) : neg \in BOOLEAN, i \in Inteiros, m \in MilsAmostra }
    \cup
    { Float(neg, i, m * 1000) : neg \in BOOLEAN, i \in 0 .. MaxInteiroFino, m \in MilsExatos }

\* currency strings: every string of at most MaxLen characters of the
\* alphabet, and the documented forms
MaxLen == 4
Alfabeto == {"1", "2", ",", ".", " ", "a", "R", "$", "-"}
Documentadas == {"1.234,56", "1234,56", "1234.56", "abc", "R$ 300,00", "R$ 1.234,56"}

RECURSIVE Cadeias(_)
Cadeias(k) ==
    IF k = 0 THEN {""}
    ELSE {""} \cup { c \o w : c \in Alfabeto, w \in Cadeias(k - 1) }

Entradas == Cadeias(MaxLen) \cup Documentadas

\* date strings <day><sep><month><sep><year>, well and ill formed
MaxDia == 32
MaxMes == 13
DiaStrs == { Pad2(i) : i \in 0 .. MaxDia } \cup {"5", " 5", "", "ab", "031"}
MesStrs == { Pad2(i) : i \in 0 .. MaxMes } \cup {"3", "ab"}
AnoStrs == {"2024", "2023", "1900", "2000", "0999", "0000", "24", "20240"}
DatasAvulsas == {"", "abc", "15/03", "15/03/2024 ", "15/03/2024/1", "15.03.2024"}
Datas == { d \o sep \o m \o sep \o y :
             d \in DiaStrs, m \in MesStrs, y \in AnoStrs, sep \in {"/", "-"} }
         \cup DatasAvulsas
Cidades == {"Manaus", ""}
UFs == {"AM", "SP"}

Zero == Float(FALSE, 0, 0)
Pendente == [tipo |-> "pendente"]

\* the variables of the calls a specification does not exercise
OciosoExtenso == n = 0 /\ ext = ""
OciosoMoeda   == valor = Zero /\ frase = ""
OciosoParse   == s = "" /\ res_pub = Pendente /\ res_priv = Pendente
OciosoData    == data_str = "" /\ cidade = "" /\ uf = "" /\ data_ext = ""

(***************************************************************************)
(* Specification of _extenso_0_999: one call on an argument of its domain  *)
(***************************************************************************)
InitExtenso ==
    /\ pc = "inicio"
    /\ n \in 0 .. 999
    /\ ext = ""
    /\ OciosoMoeda /\ OciosoParse /\ OciosoData /\ OciosoNovas

ChamarExtenso ==
    /\ pc = "inicio"
    /\ ext' = _extenso_0_999(n)
    /\ pc' = "fim"
    /\ UNCHANGED <<n, valor, frase, s, res_pub, res_priv, data_str, cidade, uf, data_ext>>
    /\ UNCHANGED vNovas

NextExtenso == ChamarExtenso

SpecExtenso == InitExtenso /\ [][NextExtenso]_vars

(***************************************************************************)
(* Specification of numero_para_moeda_ptbr: one call on an amount          *)
(***************************************************************************)
InitMoeda ==
    /\ pc = "inicio"
    /\ valor \in Valores
    /\ frase = ""
    /\ OciosoExtenso /\ OciosoParse /\ OciosoData /\ OciosoNovas

ChamarMoeda ==
    /\ pc = "inicio"
    /\ frase' = numero_para_moeda_ptbr(valor)
    /\ pc' = "fim"
    /\ UNCHANGED <<n, ext, valor, s, res_pub, res_priv, data_str, cidade, uf, data_ext>>
    /\ UNCHANGED vNovas

NextMoeda == ChamarMoeda

SpecMoeda == InitMoeda /\ [][NextMoeda]_vars

(***************************************************************************)
(* Specification of the currency-string parsers: each is called once on    *)
(* the same string                                                         *)
(***************************************************************************)
InitParse ==
    /\ pc = "inicio"
    /\ s \in Entradas
    /\ res_pub = Pendente
    /\ res_priv = Pendente
    /\ OciosoExtenso /\ OciosoMoeda /\ OciosoData /\ OciosoNovas

ChamarParsePub ==
    /\ res_pub = Pendente
    /\ res_pub' = parse_valor_brl(s)
    /\ pc' = IF res_priv # Pendente THEN "fim" ELSE pc
    /\ UNCHANGED <<n, ext, valor, frase, s, res_priv, data_str, cidade, uf, data_ext>>
    /\ UNCHANGED vNovas

ChamarParsePriv ==
    /\ res_priv = Pendente
    /\ res_priv' = _parse_valor_brl(s)
    /\ pc' = IF res_pub # Pendente THEN "fim" ELSE pc
    /\ UNCHANGED <<n, ext, valor, frase, s, res_pub, data_str, cidade, uf, data_ext>>
    /\ UNCHANGED vNovas

NextParse == ChamarParsePub \/ ChamarParsePriv

SpecParse == InitParse /\ [][NextParse]_vars

(***************************************************************************)
(* Specification of formatar_data_extenso: one call                        *)
(***************************************************************************)
InitData ==
    /\ pc = "inicio"
    /\ data_str \in Datas
    /\ cidade \in Cidades
    /\ uf \in UFs
    /\ data_ext = ""
    /\ OciosoExtenso /\ OciosoMoeda /\ OciosoParse /\ OciosoNovas

ChamarData ==
    /\ pc = "inicio"
    /\ data_ext' = formatar_data_extenso(data_str, cidade, uf)
    /\ pc' = "fim"
    /\ UNCHANGED <<n, ext, valor, frase, s, res_pub, res_priv, data_str, cidade, uf>>
    /\ UNCHANGED vNovas

NextData == ChamarData

SpecData == InitData /\ [][NextData]_vars

(***************************************************************************)
(* Specification of get_top_left_of_merged_cell: two successive calls on   *)
(* a worksheet                                                             *)
(***************************************************************************)
MaxLinha == 2
MaxMesclas == 1
ColunasGrade == "ABCD"

Grade == { Coord(c, r) : c \in 1 .. Len(ColunasGrade), r \in 1 .. MaxLinha }

\* the ranges of two cells or more within the grid
Retangulos ==
    { RangeStr(c1, r1, c2, r2) :
        <<c1, r1, c2, r2>> \in
          { q \in (1 .. Len(ColunasGrade)) \X (1 .. MaxLinha)
                    \X (1 .. Len(ColunasGrade)) \X (1 .. MaxLinha) :
              q[1] <= q[3] /\ q[2] <= q[4] /\ (q[1] < q[3] \/ q[2] < q[4]) } }

SemSobreposicao(ms) ==
    \A r1 \in ms : \A r2 \in ms \ {r1} :
        ~\E c \in Grade : CoordEmRange(c, r1) /\ CoordEmRange(c, r2)

Mesclagens ==
    { ms \in SUBSET Retangulos : Cardinality(ms) <= MaxMesclas /\ SemSobreposicao(ms) }

\* the cells a loaded worksheet holds: those outside the merged ranges and
\* the top-left cell of each range; here every other one has a text
CelulasIniciais(ms) ==
    LET reais == { c \in Grade : \A r \in ms :
                     CoordEmRange(c, r) =>
                        c = Coord(range_boundaries(r).min_col, range_boundaries(r).min_row) }
        cheias == { c \in reais : (ColDe(c) + LinhaDe(c)) % 2 = 0 }
    IN  [ c \in cheias |-> "t" \o c ]

InitMescla ==
    /\ pc = "inicio"
    /\ \E ms \in Mesclagens : ws = [merged |-> ms, cells |-> CelulasIniciais(ms)]
    /\ coord = "" /\ alvo = "" /\ coord_ant = "" /\ alvo_ant = ""
    /\ OciosoExtenso /\ OciosoMoeda /\ OciosoParse /\ OciosoData /\ OciosoImportar /\ OciosoGerar
    /\ OciosoRecibo

Resolver ==
    /\ pc \in {"inicio", "resolvida"}
    /\ \E c \in Grade :
          LET r == get_top_left_of_merged_cell(ws, c)
          IN  /\ coord' = c
              /\ alvo' = r.cel
              /\ ws' = r.ws
    /\ coord_ant' = coord
    /\ alvo_ant' = alvo
    /\ pc' = IF pc = "inicio" THEN "resolvida" ELSE "fim"
    /\ UNCHANGED <<vPuras, vImportar, vGerar, vRecibo>>

NextMescla == Resolver

SpecMescla == InitMescla /\ [][NextMescla]_vars

(***************************************************************************)
(* Specification of extrair_dados_cliente_de_pdf: one call                 *)
(***************************************************************************)
MaxTok == 5
Tokens == {"{", "}", ",", "\"a\":", "1", "x"}

\* the texts of at most k tokens
RECURSIVE Textos(_)
Textos(k) ==
    IF k = 0 THEN {<<>>}
    ELSE {<<>>} \cup { <<c>> \o w : c \in Tokens, w \in Textos(k - 1) }

SemTexto == [tipo |-> "none"]
Chaves == {"", "sk-1"}

InitExtrair ==
    /\ pc = "inicio"
    /\ api_key \in Chaves
    /\ colab \in {Exc("APIError"), SemTexto} \cup { Ret(r) : r \in Textos(MaxTok) }
    /\ res_ext = Pendente
    /\ session_state = <<>> /\ merged_d = <<>> /\ res_imp = Pendente /\ msgs = ""
    /\ chamadas = 0
    /\ OciosoExtenso /\ OciosoMoeda /\ OciosoParse /\ OciosoData /\ OciosoMescla /\ OciosoGerar
    /\ OciosoRecibo

ChamarExtrair ==
    /\ pc = "inicio"
    /\ res_ext' = extrair_dados_cliente_de_pdf(api_key, colab)
    /\ chamadas' = chamadas + (IF ChegaAoCliente(api_key) THEN 1 ELSE 0)
    /\ pc' = "fim"
    /\ UNCHANGED <<api_key, colab, session_state, merged_d, res_imp, msgs>>
    /\ UNCHANGED <<vPuras, vMescla, vGerar, vRecibo>>

NextExtrair == ChamarExtrair

SpecExtrair == InitExtrair /\ [][NextExtrair]_vars

(***************************************************************************)
(* Specification of the import button (lines 253-259): two imports in a    *)
(* session                                                                 *)
(***************************************************************************)
\* the JSON text of a value, as the language model writes it
RECURSIVE Dumps(_), DumpsMembros(_, _)
Dumps(v) ==
    CASE v.t = "null" -> <<"null">>
      [] v.t = "str"  -> << "\"" \o v.v \o "\"" >>
      [] v.t = "num"  -> << v.v >>
      [] v.t = "obj"  -> <<"{">> \o DumpsMembros(v.m, DOMAIN v.m) \o <<"}">>

DumpsMembros(f, ks) ==
    IF ks = {} THEN <<>>
    ELSE LET k == CHOOSE x \in ks : TRUE
         IN  << "\"" \o k \o "\":" >> \o Dumps(f[k])
               \o (IF ks \ {k} = {} THEN <<>> ELSE <<",">> \o DumpsMembros(f, ks \ {k}))

\* what the model answers for a field: nothing, null, blank or a text
Ausente == [t |-> "ausente", v |-> "", m |-> <<>>]
ValoresLLM == {Ausente, JNull, JStr("  "), JStr(" Ana "), JStr("Bia")}

Grupo(campo, v) == JObj(IF v = Ausente THEN <<>> ELSE (campo :> v))

\* answers following the schema: the three groups, a field in each
DadosLLM ==
    { JObj(("IDENTIFICACAO_CIVIL" :> Grupo("CLIENTE", a))
           @@ ("ENDERECO" :> Grupo("ENDERECO", b))
           @@ ("CONTATO" :> Grupo("EMAIL", c))) :
        a \in ValoresLLM, b \in ValoresLLM, c \in ValoresLLM }

\* answers off the schema: a group missing, a field in two groups, a number,
\* a group that is null or a text, a value that is no object
DadosAvulsos ==
    { JObj("CONTATO" :> Grupo("EMAIL", JStr("a@b"))),
      JObj(("IDENTIFICACAO_CIVIL" :> Grupo("CLIENTE", JStr("Ana")))
           @@ ("CONTATO" :> Grupo("CLIENTE", JStr(" Bia")))),
      JObj(("IDENTIFICACAO_CIVIL" :> Grupo("CLIENTE", JStr("Ana")))
           @@ ("CONTATO" :> Grupo("CLIENTE", JNull))),
      JObj("ENDERECO" :> Grupo("ENDERECO", JNum("7"))),
      JObj(("IDENTIFICACAO_CIVIL" :> Grupo("CLIENTE", JStr("Ana")))
           @@ ("ENDERECO" :> JNull)),
      JObj(("IDENTIFICACAO_CIVIL" :> Grupo("CLIENTE", JStr("Ana")))
           @@ ("ENDERECO" :> JStr("Rua 2"))),
      JObj("ENDERECO" :> JStr("")),
      JObj(<<>>), JNull, JNum("1") }

Respostas ==
    {Exc("APIError"), SemTexto, Ret(<<"x">>), Ret(<<"{", "x", "}">>)}
    \cup { Ret(Dumps(d)) : d \in DadosLLM \cup DadosAvulsos }
    \cup { Ret(<<"x">> \o Dumps(d) \o <<"x">>) : d \in DadosAvulsos }

CamposForm == {"CLIENTE", "ENDERECO", "EMAIL"}

\* the form as the first run of the script leaves it, or as the user typed
SessoesIniciais ==
    { [k \in CamposForm |-> ""],
      ("CLIENTE" :> "Caio") @@ ("ENDERECO" :> "Rua 1") @@ ("EMAIL" :> "") }

InitImportar ==
    /\ pc = "inicio"
    /\ api_key \in Chaves
    /\ session_state \in SessoesIniciais
    /\ colab = Pendente /\ res_ext = Pendente
    /\ merged_d = <<>> /\ res_imp = Pendente /\ msgs = "" /\ chamadas = 0
    /\ OciosoExtenso /\ OciosoMoeda /\ OciosoParse /\ OciosoData /\ OciosoMescla /\ OciosoGerar
    /\ OciosoRecibo

\* the button with a PDF uploaded: importar_pdf_e_preencher in the try, then
\* st.success and st.rerun, or st.error in the except
Importar ==
    /\ pc \in {"inicio", "importado"}
    /\ \E c \in Respostas :
          LET data == extrair_dados_cliente_de_pdf(api_key, c)
              m    == IF data.tipo = "retorno" THEN Merged(data.val) ELSE data
          IN  /\ colab' = c
              /\ res_ext' = data
              /\ chamadas' = chamadas + (IF ChegaAoCliente(api_key) THEN 1 ELSE 0)
              /\ IF m.tipo = "retorno"
                 THEN /\ merged_d' = m.val
                      /\ session_state' = _merge_session_state(session_state, m.val)
                      /\ res_imp' = Ret("None")
                      /\ msgs' = "success"
                 ELSE /\ merged_d' = <<>>
                      /\ session_state' = session_state
                      /\ res_imp' = m
                      /\ msgs' = "error"
    /\ pc' = IF pc = "inicio" THEN "importado" ELSE "fim"
    /\ UNCHANGED api_key
    /\ UNCHANGED <<vPuras, vMescla, vGerar, vRecibo>>

NextImportar == Importar

SpecImportar == InitImportar /\ [][NextImportar]_vars

(***************************************************************************)
(* Specification of the generation: two runs, each of the spreadsheet      *)
(* button or of the receipt block, while the clock advances                *)
(***************************************************************************)
CamposRogatario == {"ROGATARIO_NOME", "ROGATARIO_RG", "ROGATARIO_CPF", "ROGATARIO_END"}

\* the keys carregar_variaveis gives dados (lines 268-340)
CamposCliente ==
    {"CLIENTE", "ESTADO_CIVIL", "DATA_NASC", "PROFISSAO", "RG", "ORGAO_EXPEDIDOR", "CPF",
     "ENDERECO", "Nº", "BAIRRO", "COMPLEMENTO", "CEP", "CIDADE", "COMARCA", "UF", "DATA",
     "EMAIL", "WHATSAPP", "TELEFONE2", "TELEFONE3", "SENHA_GOV", "INDICACAO_CLIENTE",
     "PARCERIA_ADVOGADO", "ATENDENTE", "DECLARANTE", "DECLARANTE_ESTADO_CIVIL",
     "DECLARANTE_PROFISSAO", "TESTEMUNHA1", "TESTEMUNHA1_CPF", "TESTEMUNHA1_RG",
     "TESTEMUNHA1_END", "TESTEMUNHA2", "TESTEMUNHA2_CPF", "TESTEMUNHA2_RG",
     "TESTEMUNHA2_END"}

\* dados as lines 342 and 371-379 build it from the texts of the form: the
\* keys of the rogatário only when the client is not literate
carregar_variaveis(op, form) ==
    [ k \in (IF op = "Sim" THEN CamposCliente ELSE CamposCliente \cup CamposRogatario) |->
        form[k] ]

\* a form filled in: every field with a text of its own
Preenchido(cid, data) ==
    [ k \in CamposCliente \cup CamposRogatario |->
        CASE k = "CIDADE" -> cid
          [] k = "COMARCA" -> "Manaus"
          [] k = "DATA" -> data
          [] k = "UF" -> "AM"
          [] k = "ROGATARIO_NOME" -> " Rui Sá "
          [] OTHER -> "[" \o k \o "]" ]

Formularios ==
    { Preenchido("Manaus", "15/03/2024"), Preenchido("manaus", ""),
      Preenchido("MANAUS", "15/03/2024"), Preenchido("Manaus ", "15/03/2024"),
      Preenchido("Itacoatiara", "31/02/2024"), Preenchido("", "15/03/2024") }

\* records from which keys are missing, and whole ones that differ in the city
SemChaves(f, ks) == [ k \in DOMAIN f \ ks |-> f[k] ]
RegistrosParciais ==
    { SemChaves(Preenchido("Manaus", "15/03/2024"), ks) :
        ks \in { {}, {"CLIENTE"}, {"CIDADE"}, {"DATA", "UF", "COMARCA"}, {"DECLARANTE"},
                 {"TESTEMUNHA1", "TESTEMUNHA2_CPF", "ROGATARIO_NOME", "ROGATARIO_CPF"},
                 CamposCliente \cup CamposRogatario } }
    \cup { SemChaves(Preenchido("Itacoatiara", ""), {"ORGAO_EXPEDIDOR"}) }
    \cup { Preenchido("MANAUS", "15/03/2024"), Preenchido("Manaus ", "15/03/2024"),
           Preenchido("", "15/03/2024") }

\* merged ranges of a template: none; ranges around single written cells;
\* ranges holding two written cells of a contract
Plantas ==
    { {},
      {"A8:B8", "C8:I8", "A10:C10", "A29:I29", "D23:K23", "B26:F26"},
      {"A68:I68", "B10:G10", "A67:I67"} }

\* the worksheet of a template: a title, and sample texts where the client's
\* are to go
Folhas ==
    { [merged |-> ms, cells |-> ("A1" :> "MODELO") @@ ("C8" :> "xxxx") @@ ("B26" :> "xxxx")] :
        ms \in Plantas }

TodosModelos == ModelosSim \cup ModelosNao
\* every template file is there, or those of the contracts are missing
ExistentesOpcoes ==
    { TodosModelos, { m \in TodosModelos : ~StartsWith(m, "CONTRATO") } }

\* the receipt keys (lines 919-930)
Recibo0(valor_str, hora, manual, extenso) ==
    [tipo |-> "CONSULTORIA JURÍDICA", valor_str |-> valor_str, hora |-> hora,
     manual_extenso |-> manual, extenso_manual |-> extenso, preview |-> ""]
RecibosIniciais ==
    { Recibo0("", "10:35", FALSE, ""), Recibo0("300,00", "10:35", FALSE, ""),
      Recibo0("", " ", TRUE, " Trezentos reais ") }

InitComum ==
    /\ pc = "inicio"
    /\ opcao \in {"Sim", "Não"}
    /\ existentes \in ExistentesOpcoes
    /\ folha \in Folhas
    /\ relogio = 1
    /\ saida = Nada /\ saida_ant = Nada
    /\ OciosoExtenso /\ OciosoMoeda /\ OciosoParse /\ OciosoData
    /\ OciosoMescla /\ OciosoImportar /\ OciosoRecibo

\* the application: dados comes from the form
InitGerar ==
    /\ InitComum
    /\ recibo \in RecibosIniciais
    /\ \E form \in Formularios : dados = carregar_variaveis(opcao, form)

\* the button "Gerar documento preenchido"
Gerar ==
    /\ pc # "fim"
    /\ \E modelo \in modelos_arquivo(opcao) :
          saida' = [tipo |-> "planilha", variante |-> modelo, dados |-> dados,
                    entrada |-> <<>>,
                    res |-> Gerar_documento(modelo, dados, opcao, folha, existentes)]
    /\ saida_ant' = saida
    /\ pc' = IF pc = "inicio" THEN "gerado" ELSE "fim"
    /\ UNCHANGED <<dados, opcao, existentes, folha, relogio, recibo>>
    /\ UNCHANGED <<vPuras, vMescla, vImportar, vRecibo>>

\* the receipt block of a run of the script: texto_base, which seeds the
\* preview when that is empty (lines 992-993)
Recibo ==
    /\ pc # "fim"
    /\ \E tb \in {texto_base(dados, recibo, Instantes[relogio])} :
           /\ saida' = [tipo |-> "recibo", variante |-> "RECIBO", dados |-> dados,
                        entrada |-> [recibo EXCEPT !.preview = ""],
                        res |-> [wb |-> Nada, output |-> tb, file_name |-> "",
                                 ui |-> IF tb.tipo = "retorno" THEN "preview" ELSE "exception"]]
           /\ recibo' = IF tb.tipo = "retorno" /\ recibo.preview = ""
                        THEN [recibo EXCEPT !.preview = tb.val] ELSE recibo
    /\ saida_ant' = saida
    /\ pc' = IF pc = "inicio" THEN "gerado" ELSE "fim"
    /\ UNCHANGED <<dados, opcao, existentes, folha, relogio>>
    /\ UNCHANGED <<vPuras, vMescla, vImportar, vRecibo>>

\* time passes
Tique ==
    /\ relogio < Len(Instantes)
    /\ relogio' = relogio + 1
    /\ UNCHANGED <<pc, dados, opcao, existentes, folha, recibo, saida, saida_ant>>
    /\ UNCHANGED <<vPuras, vMescla, vImportar, vRecibo>>

NextGerar == Gerar \/ Recibo \/ Tique

SpecGerar == InitGerar /\ [][NextGerar]_vars

(***************************************************************************)
(* Specification of the assembly on any record: the same handlers on a     *)
(* dados from which keys may be missing                                    *)
(***************************************************************************)
InitMontar ==
    /\ InitComum
    /\ recibo = Recibo0("", "10:35", FALSE, "")
    /\ dados \in RegistrosParciais

SpecMontar == InitMontar /\ [][NextGerar]_vars

(***************************************************************************)
(* The receipt block over the runs of a session (lines 919-1010)           *)
(*                                                                         *)
(* Each action is a gesture of the user followed by the run of the script  *)
(* it causes.  The values the widgets keep are the fields of recibo; what  *)
(* Streamlit does to the state of widgets a crashed run did not reach is   *)
(* not modelled.                                                           *)
(***************************************************************************)
\* _recibo_defaults as a run builds it: the hour is the clock's
_recibo_defaults(agora) ==
    [tipo |-> "CONSULTORIA JURÍDICA", valor_str |-> "", hora |-> StrfHora(agora),
     manual_extenso |-> FALSE, extenso_manual |-> "", preview |-> ""]

\* the order of _recibo_defaults.items()
OrdemDefaults == <<"tipo", "valor_str", "hora", "manual_extenso", "extenso_manual", "preview">>

\* the keys whose widget the run has instantiated when it reaches the buttons
WidgetsDoRecibo(rc) ==
    {"tipo", "valor_str", "hora", "manual_extenso", "preview"}
    \cup (IF rc.manual_extenso THEN {"extenso_manual"} ELSE {})

\* st.session_state[k] = v past the widgets: Streamlit refuses the
\* assignment for a key whose widget was instantiated in the run
SessaoSet(r, widgets, k, v) ==
    IF r.tipo # "retorno" THEN r
    ELSE IF k \in widgets THEN Exc("StreamlitAPIException")
    ELSE Ret([r.val EXCEPT ![k] = v])

\* for _k, _v in _recibo_defaults.items(): st.session_state[_k] = _v
RECURSIVE RestaurarDefaults(_, _, _, _)
RestaurarDefaults(r, widgets, ks, defs) ==
    IF r.tipo # "retorno" \/ ks = <<>> THEN r
    ELSE CHOOSE x \in
        { RestaurarDefaults(rr, widgets, Tail(ks), defs)
          : rr \in {SessaoSet(r, widgets, Head(ks), defs[Head(ks)])} } : TRUE

\* a run of the receipt block with the session keys rc; botao is the button
\* pressed, if any.  Gives the session keys the run leaves, how it ended
\* (res), the texto_base it computed and how often line 993 assigned the
\* preview.  A button that succeeds ends in st.rerun(): one more run.
RECURSIVE Corrida(_, _, _, _)
Corrida(rc, d, agora, botao) ==
    CHOOSE x \in
        { IF tb.tipo # "retorno"
          THEN [recibo |-> rc, res |-> tb, base |-> tb, semeou |-> 0]
          ELSE LET semear == rc.preview = ""
                   rc1 == IF semear THEN [rc EXCEPT !.preview = tb.val] ELSE rc
                   w   == WidgetsDoRecibo(rc1)
                   r   == CASE botao = "regerar" -> SessaoSet(Ret(rc1), w, "preview", tb.val)
                            [] botao = "limpar" ->
                                 RestaurarDefaults(Ret(rc1), w, OrdemDefaults,
                                                   _recibo_defaults(agora))
                            [] OTHER -> Ret(rc1)
                   k   == IF semear THEN 1 ELSE 0
               IN  IF r.tipo # "retorno"
                   THEN [recibo |-> rc1, res |-> r, base |-> tb, semeou |-> k]
                   ELSE IF botao \in {"regerar", "limpar"}
                   THEN [Corrida(r.val, d, agora, "") EXCEPT !.semeou = @ + k]
                   ELSE [recibo |-> rc1, res |-> Ret("ok"), base |-> tb, semeou |-> k]
          : tb \in {texto_base(d, rc, agora)} } : TRUE

MaxCorridas == 4

\* what the user may leave in the preview, and in the fields
TextosUsuario == {"", "Recebi."}
ValoresUsuario == {"", "300,00"}
HorasUsuario == {"10:35", " "}
TiposUsuario == {"CONSULTORIA JURÍDICA", "AUDIÊNCIA"}

InitRecibo ==
    /\ pc = "inicio"
    /\ opcao = "Sim" /\ existentes = TodosModelos
    /\ folha = [merged |-> {}, cells |-> <<>>]
    /\ dados = carregar_variaveis(opcao, Preenchido("Manaus", "15/03/2024"))
    /\ relogio = 1
    /\ recibo = <<>>
    /\ saida = Nada /\ saida_ant = Nada
    /\ OciosoRecibo
    /\ OciosoExtenso /\ OciosoMoeda /\ OciosoParse /\ OciosoData
    /\ OciosoMescla /\ OciosoImportar

\* the run of the script for the session keys rc after the gesture g
Correr(rc, g, botao, texto) ==
    /\ corridas < MaxCorridas
    /\ \E c \in {Corrida(rc, dados, Instantes[relogio], botao)} :
          /\ recibo' = c.recibo
          /\ semeaduras' = semeaduras + c.semeou
          /\ saida' = [tipo |-> "recibo", variante |-> "RECIBO", dados |-> dados,
                       entrada |-> rc,
                       res |-> [wb |-> Nada, output |-> c.base, file_name |-> "",
                                ui |-> IF c.res.tipo = "retorno" THEN "preview"
                                       ELSE c.res.nome]]
    /\ saida_ant' = saida
    /\ gesto' = g
    /\ digitado' = texto
    /\ corridas' = corridas + 1
    /\ pc' = "aberto"
    /\ UNCHANGED <<dados, opcao, existentes, folha, relogio>>
    /\ UNCHANGED <<vPuras, vMescla, vImportar>>

\* the page is opened: the loop of lines 929-930 gives the keys their defaults
Abrir ==
    /\ pc = "inicio"
    /\ Correr(_recibo_defaults(Instantes[relogio]), "abrir", "", "")

\* the user leaves a text in the preview (the text area was shown)
EditarPreview ==
    /\ pc = "aberto" /\ saida.res.ui = "preview"
    /\ \E t \in TextosUsuario : Correr([recibo EXCEPT !.preview = t], "editar", "", t)

\* the user changes the value, the hour or the type
MudarCampo ==
    /\ pc = "aberto"
    /\ \/ \E v \in ValoresUsuario \ {recibo.valor_str} :
             Correr([recibo EXCEPT !.valor_str = v], "campo", "", "")
       \/ \E h \in HorasUsuario \ {recibo.hora} :
             Correr([recibo EXCEPT !.hora = h], "campo", "", "")
       \/ \E t \in TiposUsuario \ {recibo.tipo} :
             Correr([recibo EXCEPT !.tipo = t], "campo", "", "")

\* the button "Regerar texto automaticamente" (shown when the run reached it)
Regerar ==
    /\ pc = "aberto" /\ saida.res.ui = "preview"
    /\ Correr(recibo, "regerar", "regerar", "")

\* the button "Limpar campos do recibo"
Limpar ==
    /\ pc = "aberto" /\ saida.res.ui = "preview"
    /\ Correr(recibo, "limpar", "limpar", "")

NextRecibo == Abrir \/ EditarPreview \/ MudarCampo \/ Regerar \/ Limpar \/ Tique

SpecRecibo == InitRecibo /\ [][NextRecibo]_vars

(***************************************************************************)
(* Properties of the numeral and currency spellers                         *)
(***************************************************************************)

\* the call returned on a non-negative amount
MoedaFeita == pc = "fim" /\ ~valor.neg

\* the spelling of a thousands group as the documentation words it
MilharRef(k) == IF k = 1 THEN "mil" ELSE _extenso_0_999(k) \o " mil"

\* the spelling of a millions group as the documentation words it
MilhaoRef(a) ==
    IF a = 0 THEN "" ELSE IF a = 1 THEN "um milhão" ELSE _extenso_0_999(a) \o " milhões"

\* the non-empty strings of a sequence
RECURSIVE NaoVazias(_)
NaoVazias(seq) ==
    IF seq = <<>> THEN <<>>
    ELSE IF Head(seq) = "" THEN NaoVazias(Tail(seq))
    ELSE <<Head(seq)>> \o NaoVazias(Tail(seq))

\* some character of str from position i on is an upper-case letter
TemMaiusculaApos(str, i) ==
    \E j \in i .. Len(str) : \E l \in 1 .. Len(Maiusculas) :
        CharAt(str, j) = CharAt(Maiusculas, l)

\* C1: for a non-negative amount the cents spelled are in 0..99: when the
\* fractional part rounds to 100 hundredths the result spells whole + 1
\* units and no cents, never "cem centavos".
C1_CentavosAte99 ==
    MoedaFeita =>
        /\ ~Contains(frase, "cem centavos")
        /\ (2 * valor.micros >= 2 * Micro - 10000 + 1) =>
               frase = numero_para_moeda_ptbr(Float(FALSE, valor.inteiro + 1, 0))

\* C2 (as stated): for n in 1,000..999,999 with remainder r # 0 the
\* thousands part and the remainder are joined with " e " when r < 100 or r
\* is a round hundred, and with ", " otherwise.
C2_JuncaoEOuVirgula ==
    (MoedaFeita /\ valor.inteiro \in 1000 .. 999999 /\ valor.inteiro % 1000 # 0) =>
        LET k == valor.inteiro \div 1000
            r == valor.inteiro % 1000
            sep == IF r < 100 \/ r % 100 = 0 THEN " e " ELSE ", "
        IN  StartsWith(frase,
                Capitalizar(MilharRef(k) \o sep \o _extenso_0_999(r) \o " reais"))

\* C2 (amended): for n in 1,000..999,999 with remainder r # 0 the thousands
\* part and the remainder are joined with a single space in every case
\* (1001 -> "mil um", 1100 -> "mil cem", 1234 -> "mil duzentos e trinta e
\* quatro").
C2_JuncaoEspaco ==
    (MoedaFeita /\ valor.inteiro \in 1000 .. 999999 /\ valor.inteiro % 1000 # 0) =>
        LET k == valor.inteiro \div 1000
            r == valor.inteiro % 1000
        IN  /\ StartsWith(frase,
                   Capitalizar(MilharRef(k) \o " " \o _extenso_0_999(r) \o " reais"))
            /\ valor.inteiro = 1001 => StartsWith(frase, "Mil um reais")
            /\ valor.inteiro = 1100 => StartsWith(frase, "Mil cem reais")
            /\ valor.inteiro = 1234 =>
                   StartsWith(frase, "Mil duzentos e trinta e quatro reais")

C2_Witness ==
    /\ pc = "fim"
    /\ valor = Float(FALSE, 1001, 0)
    /\ frase = "Mil um reais"

\* C3: for a non-negative amount with whole part w and rounded cents c the
\* result is, first letter capitalised, "zero reais" if w = 0, "um real" if
\* w = 1, else spell(w) + " reais"; alone when c = 0, else followed by
\* " e " + ("um centavo" if c = 1 else spell(c) + " centavos").
C3_FraseComposta ==
    MoedaFeita =>
        LET w == valor.inteiro
            c == Centavos(valor)
            unidade == IF w = 0 THEN "zero reais"
                       ELSE IF w = 1 THEN "um real"
                       ELSE Partes_reais(w) \o " reais"
            subunidade == IF c = 0 THEN ""
                          ELSE IF c = 1 THEN " e um centavo"
                          ELSE " e " \o _extenso_0_999(c) \o " centavos"
            esperado == unidade \o subunidade
        IN  /\ frase = Upper(CharAt(esperado, 1)) \o From(esperado, 2)
            /\ valor = Float(FALSE, 0, 0) => frase = "Zero reais"
            /\ valor = Float(FALSE, 1, 0) => frase = "Um real"
            /\ valor = Float(FALSE, 1234, 560000) =>
                   frase = "Mil duzentos e trinta e quatro reais e cinquenta e seis centavos"

C3_Witness ==
    /\ pc = "fim"
    /\ valor = Float(FALSE, 1234, 560000)
    /\ frase = "Mil duzentos e trinta e quatro reais e cinquenta e seis centavos"

\* the reference Portuguese spelling of 1..999
RECURSIVE ExtensoRef(_)
ExtensoRef(k) ==
    IF k < 10 THEN unidades[k + 1]
    ELSE IF k < 20 THEN dez_a_dezenove[k - 9]
    ELSE IF k < 100
         THEN dezenas[(k \div 10) + 1]
              \o (IF k % 10 # 0 THEN " e " \o unidades[(k % 10) + 1] ELSE "")
    ELSE IF k = 100 THEN "cem"
    ELSE centenas_tab[(k \div 100) + 1]
         \o (IF k % 100 # 0 THEN " e " \o ExtensoRef(k % 100) ELSE "")

\* C4: for n in 1..999 _extenso_0_999(n) is the reference spelling: unit
\* word, teen word, tens word plus " e " unit iff unit # 0, "cem" exactly
\* for 100, and for n >= 101 the hundreds word ("cento", never "cem") plus
\* " e " remainder iff remainder # 0.
C4_ExtensoReferencia ==
    (pc = "fim" /\ n \in 1 .. 999) =>
        /\ ext = ExtensoRef(n)
        /\ (n # 100) => ~Contains(ext, "cem")
        /\ (n \in 101 .. 199) => StartsWith(ext, "cento")
        /\ (n = 1) => ext = "um"
        /\ (n = 15) => ext = "quinze"
        /\ (n = 21) => ext = "vinte e um"
        /\ (n = 100) => ext = "cem"
        /\ (n = 101) => ext = "cento e um"

C4_Witness ==
    /\ pc = "fim"
    /\ n = 101
    /\ ext = "cento e um"

\* C5: for a whole number in 1,000..999,999,999 the thousands group is the
\* bare word "mil" when its value is 1 and spell(group) + " mil" otherwise,
\* the millions word is "milhão" exactly when the millions group is 1 and
\* "milhões" for every other non-zero value, and a group of value 0
\* contributes no words.
C5_GruposMilEMilhao ==
    (MoedaFeita /\ valor.inteiro \in 1000 .. 999999999) =>
        LET a == valor.inteiro \div 1000000
            k == (valor.inteiro % 1000000) \div 1000
            c == valor.inteiro % 1000
            grupos == NaoVazias(<< MilhaoRef(a),
                                   IF k = 0 THEN "" ELSE MilharRef(k),
                                   _extenso_0_999(c) >>)
        IN  /\ StartsWith(frase, Capitalizar(Join(grupos, " ") \o " reais"))
            /\ Contains(frase, "milhão") <=> a = 1
            /\ Contains(frase, "milhões") <=> a >= 2
            /\ (k = 1) => ~Contains(frase, "um mil ") /\ ~Contains(frase, "Um mil ")
            /\ (k = 0) => ~Contains(frase, "mil ") /\ ~Contains(frase, "Mil ")

C5_Witness ==
    /\ pc = "fim"
    /\ valor = Float(FALSE, 1001000, 0)
    /\ frase = "Um milhão mil reais"

\* C6: the cents are the fractional part rounded half-up: an amount whose
\* fractional part is exactly halfway between two cent values (x.125,
\* x.005) is spelled with the upper of the two.
C6_MeioCentavoParaCima ==
    (MoedaFeita /\ valor.micros % 10000 = 5000 /\ valor.micros < 990000) =>
        frase = numero_para_moeda_ptbr(
                    Float(FALSE, valor.inteiro, valor.micros + 5000))

\* C7: for a negative amount the result is the spelling of |v| prefixed by
\* "menos ", with exactly the first letter of the whole result in upper
\* case and every other letter in lower case (-1.00 -> "Menos um real").
C7_MenosRecapitalizado ==
    (pc = "fim" /\ Menor0(valor)) =>
        /\ StartsWith(frase, "Menos ")
        /\ ~TemMaiusculaApos(frase, 2)
        /\ valor = Float(TRUE, 1, 0) => frase = "Menos um real"

(***************************************************************************)
(* Properties of the currency-string parsers                               *)
(***************************************************************************)

\* equality of floats (-0.0 == 0.0)
IgualFloat(a, b) ==
    /\ a.inteiro = b.inteiro
    /\ a.micros = b.micros
    /\ (a.neg = b.neg \/ (a.inteiro = 0 /\ a.micros = 0))

\* the call returned the value v
Retornou(res, v) == res.tipo = "retorno" /\ IgualFloat(res.val, v)

\* C8: for every input string _parse_valor_brl returns a number and never
\* raises; empty and unparseable input yield 0.0.
C8_ParseNuncaLevanta ==
    (res_priv # Pendente) =>
        /\ res_priv.tipo = "retorno"
        /\ (s \in {"", "abc", "a", ",", ".", "1,2,1", "1.2.1"}) => Retornou(res_priv, Zero)

\* C9: each of parse_valor_brl and _parse_valor_brl maps "1.234,56",
\* "1234,56" and "1234.56" to 1234.56 (a comma is the decimal separator and
\* dots are thousands separators; without a comma a dot is the decimal
\* separator).  Stated of each parser's returned value; that a parser
\* returns at all is the subject of C8.
C9_FormasDocumentadas ==
    (s \in {"1.234,56", "1234,56", "1234.56"}) =>
        /\ (res_pub.tipo = "retorno") => Retornou(res_pub, Float(FALSE, 1234, 560000))
        /\ (res_priv.tipo = "retorno") => Retornou(res_priv, Float(FALSE, 1234, 560000))

(***************************************************************************)
(* Properties of the date formatter                                        *)
(***************************************************************************)

\* the fixed table of Portuguese month names
MesRef(m) ==
    CASE m = 1 -> "janeiro"  [] m = 2 -> "fevereiro" [] m = 3 -> "março"
      [] m = 4 -> "abril"    [] m = 5 -> "maio"      [] m = 6 -> "junho"
      [] m = 7 -> "julho"    [] m = 8 -> "agosto"    [] m = 9 -> "setembro"
      [] m = 10 -> "outubro" [] m = 11 -> "novembro" [] m = 12 -> "dezembro"

\* str is written DD/MM/YYYY
FormaDDMMYYYY(str) ==
    /\ Len(str) = 10
    /\ CharAt(str, 3) = "/" /\ CharAt(str, 6) = "/"
    /\ SoDigitos(SubSeq(str, 1, 2)) /\ SoDigitos(SubSeq(str, 4, 5))
    /\ SoDigitos(SubSeq(str, 7, 10))

\* day d of month m of year y is a date of the (proleptic Gregorian) calendar
DataDoCalendario(d, m, y) ==
    /\ y >= 1 /\ m \in 1 .. 12 /\ d >= 1
    /\ d <= (CASE m = 2 -> (IF y % 400 = 0 \/ (y % 4 = 0 /\ y % 100 # 0) THEN 29 ELSE 28)
               [] m \in {4, 6, 9, 11} -> 30
               [] OTHER -> 31)

\* C10: for every valid calendar date written DD/MM/YYYY and every locality
\* and region code the result is exactly
\* "<locality> - <regionCode>, <DD> de <month name> de <year>." with the day
\* zero-padded to two digits and the month name of the 12-entry table.
C10_DataPorExtenso ==
    (pc = "fim" /\ FormaDDMMYYYY(data_str)) =>
        LET d == StrToNat(SubSeq(data_str, 1, 2))
            m == StrToNat(SubSeq(data_str, 4, 5))
            y == StrToNat(SubSeq(data_str, 7, 10))
        IN  DataDoCalendario(d, m, y) =>
              /\ data_ext = cidade \o " - " \o uf \o ", " \o SubSeq(data_str, 1, 2)
                                \o " de " \o MesRef(m) \o " de " \o NatToStr(y) \o "."
              /\ (data_str = "15/03/2024" /\ cidade = "Manaus" /\ uf = "AM") =>
                     data_ext = "Manaus - AM, 15 de março de 2024."

C10_Witness ==
    /\ pc = "fim"
    /\ data_str = "05/03/2024" /\ cidade = "Manaus" /\ uf = "AM"
    /\ data_ext = "Manaus - AM, 05 de março de 2024."


\* str reads as <day>/<month>/<year>: exactly two slashes, a day of one or two
\* digits (or a space and a digit), a month of one or two digits, a year of
\* four digits, together a date of the calendar
DataLegivel(str) ==
    \E i \in 1 .. Len(str) : \E j \in (i + 1) .. Len(str) :
        /\ \A k \in 1 .. Len(str) : (CharAt(str, k) = "/") <=> (k \in {i, j})
        /\ LET dd == SubSeq(str, 1, i - 1)
               mm == SubSeq(str, i + 1, j - 1)
               yy == SubSeq(str, j + 1, Len(str))
               dn == IF Len(dd) = 2 /\ CharAt(dd, 1) = " " THEN SubSeq(dd, 2, 2) ELSE dd
           IN  /\ Len(dd) \in 1 .. 2 /\ Len(mm) \in 1 .. 2 /\ Len(yy) = 4
               /\ SoDigitos(dn) /\ SoDigitos(mm) /\ SoDigitos(yy)
               /\ DataDoCalendario(StrToNat(dn), StrToNat(mm), StrToNat(yy))

\* C11: for every date string that does not read as a day/month/year
\* calendar date (empty, wrong separators, non-numeric, month 0 or 13,
\* impossible days such as 31/02) the call returns exactly
\* "<locality> - <regionCode>", with no comma, date or period; the call always
\* returns (data_ext is the returned string, no exception leaves the call).
C11_DataInvalidaSoLocal ==
    (pc = "fim" /\ ~DataLegivel(data_str)) =>
        /\ data_ext = cidade \o " - " \o uf
        /\ ~Contains(From(data_ext, Len(cidade) + 1), ",")
        /\ (data_str = "31/02/2024" /\ cidade = "Manaus" /\ uf = "AM") =>
               data_ext = "Manaus - AM"

C11_Witness ==
    /\ pc = "fim"
    /\ data_str = "31/02/2024" /\ cidade = "Manaus" /\ uf = "AM"
    /\ data_ext = "Manaus - AM"

(***************************************************************************)
(* Properties of the merged-region lookup                                  *)
(***************************************************************************)

\* the coordinates a range string covers, and its top-left coordinate, read
\* off the string "<top-left>:<bottom-right>"
CantoRef(rs) == SubSeq(rs, 1, IndexOf(rs, ":") - 1)
FundoRef(rs) == From(rs, IndexOf(rs, ":") + 1)
CobreRef(rs, c) ==
    /\ CharAt(CantoRef(rs), 1) \in { CharAt(Colunas, k) : k \in 1 .. IndexOf(Colunas, CharAt(c, 1)) }
    /\ CharAt(c, 1) \in { CharAt(Colunas, k) : k \in 1 .. IndexOf(Colunas, CharAt(FundoRef(rs), 1)) }
    /\ StrToNat(From(CantoRef(rs), 2)) <= StrToNat(From(c, 2))
    /\ StrToNat(From(c, 2)) <= StrToNat(From(FundoRef(rs), 2))

C13_ConsultaPura ==
    /\ [][ /\ ws'.merged = ws.merged
           /\ \A c \in Grade : Valor(ws', c) = Valor(ws, c)
           /\ \A c \in Grade : get_top_left_of_merged_cell(ws', c).cel
                                   = get_top_left_of_merged_cell(ws, c).cel ]_vars
    /\ []((pc = "fim" /\ coord = coord_ant) => alvo = alvo_ant)

C13_Witness ==
    /\ pc = "fim"
    /\ ws.merged = {"B2:D2"}
    /\ coord_ant = "D2" /\ alvo_ant = "B2" /\ coord = "D2" /\ alvo = "B2"
    /\ Valor(ws, "B2") = "tB2"

(***************************************************************************)
(* Properties of the PDF import                                            *)
(***************************************************************************)

\* x is y without its leading and trailing spaces
RECURSIVE Espacos(_)
Espacos(k) == IF k = 0 THEN "" ELSE " " \o Espacos(k - 1)
EhAparo(x, y) ==
    /\ x = "" \/ (CharAt(x, 1) # " " /\ CharAt(x, Len(x)) # " ")
    /\ \E i \in 0 .. Len(y) : \E j \in 0 .. Len(y) : y = Espacos(i) \o x \o Espacos(j)

\* d names k with a value that is not null and not blank
TemTexto(d, k) ==
    /\ k \in DOMAIN d
    /\ d[k].t # "null"
    /\ ~EhAparo("", d[k].v)

\* C14: a merge changes a stored field k only when the dict names k with a
\* value that is not null and not empty after trimming, and the field then
\* holds the trimmed text; a null, empty or whitespace-only value never
\* overwrites or clears a field, and the fields the dict does not name stay as
\* they were.
C14_MergeSoNaoVazios ==
    [][ /\ DOMAIN session_state \subseteq DOMAIN session_state'
        /\ \A k \in DOMAIN session_state' :
              IF TemTexto(merged_d', k)
              THEN EhAparo(session_state'[k], merged_d'[k].v)
              ELSE k \in DOMAIN session_state /\ session_state'[k] = session_state[k] ]_vars

C14_Witness ==
    /\ pc = "fim"
    /\ msgs = "success"
    /\ merged_d = ("CLIENTE" :> JStr(" Ana ")) @@ ("ENDERECO" :> JStr("  ")) @@ ("EMAIL" :> JNull)
    /\ session_state = ("CLIENTE" :> "Ana") @@ ("ENDERECO" :> "Rua 1") @@ ("EMAIL" :> "Bia")

\* the first "{" and the last "}" of a text, 1-based; 0 when there is none
PrimeiraChave(tk) ==
    IF \A i \in 1 .. Len(tk) : tk[i] # "{" THEN 0
    ELSE CHOOSE i \in 1 .. Len(tk) : tk[i] = "{" /\ \A j \in 1 .. Len(tk) : tk[j] = "{" => i <= j
UltimaChave(tk) ==
    IF \A i \in 1 .. Len(tk) : tk[i] # "}" THEN 0
    ELSE CHOOSE i \in 1 .. Len(tk) : tk[i] = "}" /\ \A j \in 1 .. Len(tk) : tk[j] = "}" => j <= i

\* C20: when the text of the collaborator is not valid JSON the call decodes
\* the substring from the first "{" to the last "}" and returns that; when
\* there is no such substring, or it is not valid JSON either, the call ends
\* in an exception and returns nothing.
C20_RecuperaOuFalha ==
    (pc = "fim" /\ api_key # "" /\ colab.tipo = "retorno"
        /\ json_loads(colab.val).tipo = "excecao") =>
        LET a == PrimeiraChave(colab.val)
            b == UltimaChave(colab.val)
            trecho == SubSeq(colab.val, a, b)
        IN  IF a > 0 /\ b > a /\ json_loads(trecho).tipo = "retorno"
            THEN res_ext = json_loads(trecho)
            ELSE res_ext.tipo = "excecao"

C20_Witness ==
    /\ pc = "fim" /\ api_key # ""
    /\ colab = Ret(<<"x", "{", "\"a\":", "1", "}">>)
    /\ res_ext = Ret(JObj("a" :> JNum("1")))

\* the failing side of C20: a text with braces whose substring is not JSON
C20_WitnessFalha ==
    /\ pc = "fim" /\ api_key # ""
    /\ colab = Ret(<<"{", "}", "x", "}">>)
    /\ res_ext = Exc("JSONDecodeError")

(***************************************************************************)
(* The fee clause of the contracts                                         *)
(***************************************************************************)
EhContrato(modelo) == StartsWith(modelo, "CONTRATO")

\* the record has a CIDADE that reads "manaus" when the case of each letter
\* is left aside
CidadeManaus(d) ==
    /\ "CIDADE" \in DOMAIN d
    /\ Len(d["CIDADE"]) = 6
    /\ \A i \in 1 .. 6 :
          CharAt(d["CIDADE"], i) \in {CharAt("manaus", i), CharAt("MANAUS", i)}

\* C15: in both contract variants the fee clause written to A29 is the 30%
\* text exactly when CIDADE is "manaus" in any mix of upper and lower case,
\* and the 35% text for every other CIDADE, the empty and the absent one
\* included.
C15_ClausulaHonorarios ==
    (saida.tipo = "planilha" /\ EhContrato(saida.variante) /\ saida.res.ui = "success") =>
        Valor(saida.res.output.val, "A29") =
            IF CidadeManaus(saida.dados) THEN Clausula30 ELSE Clausula35

\* a contract of a client of "MANAUS" carries the 30% clause
C15_Witness ==
    /\ saida.tipo = "planilha" /\ EhContrato(saida.variante) /\ saida.res.ui = "success"
    /\ "CIDADE" \in DOMAIN saida.dados /\ saida.dados["CIDADE"] = "MANAUS"
    /\ Valor(saida.res.output.val, "A29") = Clausula30

\* a contract of a record without CIDADE carries the 35% clause
C15_WitnessAusente ==
    /\ saida.tipo = "planilha" /\ EhContrato(saida.variante) /\ saida.res.ui = "success"
    /\ "CIDADE" \notin DOMAIN saida.dados
    /\ Valor(saida.res.output.val, "A29") = Clausula35

(***************************************************************************)
(* The cells of the FieldMaps                                              *)
(***************************************************************************)
\* the (coordinate, field) pairs a variant fills in, in the order of the loops
MapaDe(modelo) ==
    CASE modelo = "CONTRATO DE PRESTAÇÃO DE SERVIÇOS ADVOCATÍCIOS" -> PreenchContrato
      [] modelo = "PROCURAÇÃO AD JUDICIA ET EXTRA" -> PreenchProcuracao
      [] modelo = "DECLARAÇÃO DE VIDA E RESIDÊNCIA_ANALFABETO(A)" -> PreenchResidAnalf
      [] modelo = "PROCURAÇÃO AD JUDICIA ET EXTRA_ANALFABETO(A)" ->
            PreenchProcAnalf1 \o PreenchProcAnalf2
      [] modelo = "DECLARAÇÃO DE HIPOSSUFICIÊNCIA DE RENDA_ANALFABETO(A)" -> PreenchHipoAnalf
      [] modelo = "CONTRATO DE PRESTAÇÃO DE SERVIÇOS ADVOCATÍCIOS_ANALFABETO(A)" ->
            PreenchContratoAnalf
      [] OTHER -> <<>>

\* the coordinates a variant writes a composed text to: the narrative or the
\* address, the clauses, the date, the signature name
DiretasDe(modelo) ==
    CASE modelo = "DECLARAÇÃO DE HIPOSSUFICIÊNCIA DE RENDA" -> {"A8", "D25"}
      [] modelo = "DECLARAÇÃO DE VIDA E RESIDÊNCIA" -> {"A8", "I17"}
      [] modelo = "CONTRATO DE PRESTAÇÃO DE SERVIÇOS ADVOCATÍCIOS" ->
            {"A29", "A68", "F72", "A76"}
      [] modelo = "PROCURAÇÃO AD JUDICIA ET EXTRA" -> {"A8", "I17"}
      [] modelo = "DECLARAÇÃO DE VIDA E RESIDÊNCIA_ANALFABETO(A)" -> {"A6", "I18"}
      [] modelo = "PROCURAÇÃO AD JUDICIA ET EXTRA_ANALFABETO(A)" -> {"A8", "K17", "E23"}
      [] modelo = "DECLARAÇÃO DE HIPOSSUFICIÊNCIA DE RENDA_ANALFABETO(A)" -> {"A6", "K20"}
      [] modelo = "CONTRATO DE PRESTAÇÃO DE SERVIÇOS ADVOCATÍCIOS_ANALFABETO(A)" ->
            {"A29", "A67", "I71", "A74"}
      [] OTHER -> {}

EscritasDe(modelo) ==
    { MapaDe(modelo)[i][1] : i \in 1 .. Len(MapaDe(modelo)) } \cup DiretasDe(modelo)

\* no merged range of the worksheet holds two of the coordinates the variant
\* writes
SemRegiaoPartilhada(w, modelo) ==
    \A rs \in w.merged :
        Cardinality({ c \in EscritasDe(modelo) : CobreRef(rs, c) }) <= 1

\* the cell a write to c lands on: the top-left of the merged range that
\* covers c, or c
AlvoRef(w, c) ==
    IF \E rs \in w.merged : CobreRef(rs, c)
    THEN CantoRef(CHOOSE rs \in w.merged : CobreRef(rs, c))
    ELSE c

\* C16: after a successful assembly, when no merged region of the template
\* holds two of the coordinates the variant writes, the coordinates of the
\* variant's FieldMap are pairwise distinct and the target cell of each pair
\* holds the record's text for the field ("" when the field is absent).
C16_CelulasDoMapa ==
    (saida.tipo = "planilha" /\ saida.res.ui = "success"
        /\ SemRegiaoPartilhada(folha, saida.variante)) =>
        LET mapa == MapaDe(saida.variante)
        IN  /\ \A i, j \in 1 .. Len(mapa) : mapa[i][1] = mapa[j][1] => i = j
            /\ \A i \in 1 .. Len(mapa) :
                  Valor(saida.res.output.val, AlvoRef(folha, mapa[i][1])) =
                      IF mapa[i][2] \in DOMAIN saida.dados THEN saida.dados[mapa[i][2]] ELSE ""

\* a literate contract on a template that merges A10:C10: the text of
\* ESTADO_CIVIL, written for B10, is in A10, and the sample text of C8 gave
\* way to the client's name
C16_Witness ==
    /\ saida.tipo = "planilha" /\ saida.res.ui = "success"
    /\ saida.variante = "CONTRATO DE PRESTAÇÃO DE SERVIÇOS ADVOCATÍCIOS"
    /\ "A10:C10" \in folha.merged
    /\ SemRegiaoPartilhada(folha, saida.variante)
    /\ "ESTADO_CIVIL" \in DOMAIN saida.dados
    /\ Valor(saida.res.output.val, "A10") = saida.dados["ESTADO_CIVIL"]
    /\ Valor(saida.res.output.val, "B10") = None
    /\ Valor(saida.res.output.val, "C8") = saida.dados["CLIENTE"]

C18_ModeloAusente ==
    /\ [][ (pc' # pc /\ saida'.tipo = "planilha" /\ saida'.variante \notin existentes) =>
              /\ saida'.res.wb = [tipo |-> "nada"]
              /\ saida'.res.output = [tipo |-> "nada"]
              /\ saida'.res.file_name = ""
              /\ saida'.res.ui = "error"
              /\ dados' = dados /\ folha' = folha /\ existentes' = existentes ]_vars
    /\ []( (saida_ant.tipo = "planilha" /\ saida_ant.res.ui = "error"
              /\ saida.tipo = "planilha" /\ saida.variante \in existentes) =>
              /\ saida.res.ui = "success"
              /\ saida.res.output.tipo = "retorno"
              /\ saida.res.file_name = Replace(saida.variante, " ", "_") \o ".xlsx"
              /\ saida.dados = saida_ant.dados )

\* the contract's template is missing and the error is shown; the procuração
\* generated next from the same record is filled in
C18_Witness ==
    /\ saida_ant.tipo = "planilha" /\ saida_ant.res.ui = "error"
    /\ EhContrato(saida_ant.variante) /\ saida_ant.variante \notin existentes
    /\ saida.tipo = "planilha" /\ saida.variante = "PROCURAÇÃO AD JUDICIA ET EXTRA"
    /\ saida.res.ui = "success"
    /\ Valor(saida.res.output.val, "C3") = saida_ant.dados["CLIENTE"]

(***************************************************************************)
(* The same assembly twice                                                 *)
(***************************************************************************)
\* C19: two assemblies of the same variant (the receipt included) from the
\* same record and the same inputs, on the same template, give the same
\* output, whatever was assembled before and whatever the clock shows.
C19_MesmaSaida ==
    (saida.tipo # "nada" /\ saida_ant.tipo # "nada"
        /\ saida.variante = saida_ant.variante
        /\ saida.dados = saida_ant.dados
        /\ saida.entrada = saida_ant.entrada) =>
        saida.res.output = saida_ant.res.output

(***************************************************************************)
(* An import that fails                                                    *)
(***************************************************************************)
\* C21: an import that fails (no OPENAI_API_KEY, an exception of the
\* collaborator, a text that cannot be decoded, a decoded value the merge
\* cannot read) changes no field of the session state and shows the error
\* message, the exception being caught by the handler; without the key the
\* failure is the RuntimeError of the key test and the collaborator is not
\* called.
C21_FalhaSemEfeito ==
    [][ pc' # pc =>
          /\ api_key = "" =>
                (res_imp' = Exc("RuntimeError") /\ chamadas' = chamadas)
          /\ (api_key # "" /\ colab'.tipo = "excecao") => res_imp' = colab'
          /\ res_ext'.tipo = "excecao" => res_imp' = res_ext'
          /\ res_imp'.tipo = "excecao" =>
                (msgs' = "error" /\ session_state' = session_state)
          /\ msgs' \in {"error", "success"}
          /\ msgs' = "error" => res_imp'.tipo = "excecao" ]_vars

\* a first import filled in the client's name; the second one failed in the
\* collaborator: the error is shown and the name is still there
C21_Witness ==
    /\ pc = "fim" /\ api_key # "" /\ chamadas = 2
    /\ colab = Exc("APIError") /\ res_imp = Exc("APIError") /\ msgs = "error"
    /\ session_state["CLIENTE"] = "Ana" /\ session_state["ENDERECO"] = "Rua 1"

\* without the key: two failed imports and no call
C21_WitnessSemChave ==
    /\ pc = "fim" /\ api_key = "" /\ chamadas = 0
    /\ res_imp = Exc("RuntimeError") /\ msgs = "error"
    /\ session_state["CLIENTE"] = "Caio"

(***************************************************************************)
(* The preview of the receipt                                              *)
(***************************************************************************)
\* C22: over the runs of a session the base text is assigned to the preview
\* by the script itself once, in the first run; a run after the user edited
\* the preview or changed the value, the hour or the type leaves in the
\* preview what the user left there; a run after "Regerar" leaves the base
\* text it computed, and a run after "Limpar" leaves every field of the
\* receipt other than the preview at its default.
C22_PreviaSoUmaVez ==
    [][ corridas' # corridas =>
          /\ gesto' = "abrir" =>
                (semeaduras' = 1 /\ recibo'.preview = saida'.res.output.val)
          /\ gesto' = "editar" =>
                (semeaduras' = semeaduras /\ recibo'.preview = digitado')
          /\ gesto' = "campo" =>
                (semeaduras' = semeaduras /\ recibo'.preview = recibo.preview)
          /\ gesto' = "regerar" => recibo'.preview = saida'.res.output.val
          /\ gesto' = "limpar" =>
                \A k \in {"tipo", "valor_str", "hora", "manual_extenso", "extenso_manual"} :
                    recibo'[k] = _recibo_defaults(Instantes[relogio])[k] ]_vars

(***************************************************************************)
(* The branch of each selectable name                                      *)
(***************************************************************************)
\* the coordinates whose font alone a variant sets
FormatadasDe(modelo) ==
    CASE modelo = "CONTRATO DE PRESTAÇÃO DE SERVIÇOS ADVOCATÍCIOS" ->
            {"A31", "A34", "A61", "A63", "A65", "B84", "B85", "B86", "B87",
             "G84", "G85", "G86", "G87"}
      [] modelo = "CONTRATO DE PRESTAÇÃO DE SERVIÇOS ADVOCATÍCIOS_ANALFABETO(A)" ->
            {"A31", "A34", "A58", "A64"}
      [] OTHER -> {}

\* the cells of the output that the template did not hold, or held with
\* another value
CelulasNovas(out, w) ==
    { c \in DOMAIN out.cells : c \notin DOMAIN w.cells \/ out.cells[c] # w.cells[c] }

\* C23: the name selected is one of those offered for the answer on
\* literacy, and a successful generation gives a workbook filled by the
\* branch of that very name: every text the variant composes is in its cell,
\* and no cell was touched but those the variant's own mapping reaches.
C23_RamoDoModelo ==
    (saida.tipo = "planilha" /\ saida.res.ui = "success") =>
        LET out == saida.res.output.val
        IN  /\ saida.variante \in (IF opcao = "Sim" THEN ModelosSim ELSE ModelosNao)
            /\ DiretasDe(saida.variante) # {}
            /\ \A c \in DiretasDe(saida.variante) : Valor(out, AlvoRef(folha, c)) # None
            /\ CelulasNovas(out, folha) # {}
            /\ CelulasNovas(out, folha) \subseteq
                  { AlvoRef(folha, c) : c \in EscritasDe(saida.variante) }
                  \cup FormatadasDe(saida.variante)

\* the illiterate procuração, generated when the answer is "Não": the date
\* is in K17 and the rogatário in E23
C23_Witness ==
    /\ saida.tipo = "planilha" /\ saida.res.ui = "success" /\ opcao = "Não"
    /\ saida.variante = "PROCURAÇÃO AD JUDICIA ET EXTRA_ANALFABETO(A)"
    /\ folha.merged = {}
    /\ Valor(saida.res.output.val, "K17") = "Manaus - AM, 15 de março de 2024."
    /\ Valor(saida.res.output.val, "E23") = "Rui Sá, CPF: [ROGATARIO_CPF]"
    /\ Valor(saida.res.output.val, "I17") = None

=============================================================================
